---- MODULE Spec2Model ----
(***************************************************************************)
(* The RAG subsystem of the job-application agent: the relational          *)
(* knowledge-base record with its embedding_id flag, the four Qdrant       *)
(* collections, the indexing pipeline, the retriever and the /rag and      *)
(* /knowledge-base endpoints that drive them.                              *)
(***************************************************************************)
EXTENDS Integers, Sequences, FiniteSets, TLC

VARIABLES
    db,         \* knowledge_base table: kb id -> NoKb or the row
    nextKbId,   \* the serial primary key the next inserted row gets
    existing,   \* names of the Qdrant collections that exist
    points,     \* collection name -> set of stored points
    last,       \* what the last completed request did and returned
    inst        \* per process instance: progress of its startup create_collections

vars == <<db, nextKbId, existing, points, last, inst>>

----------------------------------------------------------------------------
\* Bounds of the model.

\* knowledge-base rows ever inserted (primary keys 1..MaxKbs)
MaxKbs == 2

\* points the vector store holds at once
MaxPoints == 6

\* the limit a search request asks for when it does not take the defaults
SmallLimit == 1

\* the largest limit a caller of the retriever asks for, per kind
MaxLimit == 3

----------------------------------------------------------------------------
\* Program constants.

\* rag.py: kb_id = 1  (search and answer serve the hard-coded user)
HardcodedUser == 1

\* rag_service.py: search_qa_pairs(..., limit=2)
QaLimit == 2

KbIds == 1..MaxKbs

COLLECTION_EXPERIENCES == "work_experiences"
COLLECTION_PROJECTS == "projects"
COLLECTION_SKILLS == "skills"
COLLECTION_QA == "qa_pairs"

\* the list both create_collections and delete_by_kb_id iterate over
Collections ==
    <<COLLECTION_EXPERIENCES, COLLECTION_PROJECTS, COLLECTION_SKILLS, COLLECTION_QA>>

CollectionNames == {Collections[i] : i \in 1..Len(Collections)}

----------------------------------------------------------------------------
\* Knowledge-base contents.  A record of the snapshot is a function from
\* field names to values; a plain-string skill s is written Str(s).

\* stand-in for a list element that is not a string: ', '.join raises on it
NonStr == "<non-str>"

Str(s) == [str |-> s]

IsStr(skill) == "str" \in DOMAIN skill

Exp1 == [title |-> "Backend Engineer", company |-> "Acme", description |-> "Built APIs"]

ProjA == [name |-> "Crawler", description |-> "Scrapes postings", technologies |-> <<"Python">>]

\* a malformed record: its technologies list holds a non-string
ProjBad == [name |-> "Broken", technologies |-> <<NonStr>>]

\* a record that carries keys of its own named like the decoration
ProjForged ==
    [name |-> "Forged", kb_id |-> 2, type |-> "skill", project_id |-> <<"proj", 9>>]

SkillPy == Str("Python")

Qa1 == <<"Why this role?", "I like APIs">>

NoData ==
    [work_experience |-> <<>>, projects |-> <<>>, skills |-> <<>>, qa_pairs |-> <<>>]

DataScenario ==
    [work_experience |-> <<Exp1>>, projects |-> <<>>, skills |-> <<SkillPy>>, qa_pairs |-> <<>>]

DataBadProject ==
    [work_experience |-> <<>>, projects |-> <<ProjA, ProjBad, ProjForged>>,
     skills |-> <<>>, qa_pairs |-> <<Qa1>>]

Qa2 == <<"Biggest strength?", "Shipping on time">>

Qa3 == <<"Salary expectation?", "Open to discuss">>

\* more Q&A pairs than the retriever asks the store for, with two projects
DataManyQa ==
    [work_experience |-> <<>>, projects |-> <<ProjA, ProjForged>>,
     skills |-> <<>>, qa_pairs |-> <<Qa1, Qa2, Qa3>>]

\* the request bodies the profile endpoints are driven with
Snapshots == {NoData, DataScenario, DataBadProject}

Questions == {"backend engineer roles", "watercolor painting techniques"}

----------------------------------------------------------------------------
\* Embedder (embedding_service.py).  A text is the sequence of its labelled
\* segments, ' | '-joined in the code; the sentence-transformer is kept
\* symbolic: the vector of a text is the text it was computed from.

Part(label, value) == [label |-> label, value |-> value]

\* d.get(k) is truthy, for a string field
TruthyStr(d, k) == k \in DOMAIN d /\ d[k] # ""

\* d.get(k) is truthy, for a list field
TruthyList(d, k) == k \in DOMAIN d /\ d[k] # <<>>

\* ', '.join(l) raises TypeError
JoinRaises(l) == \E i \in 1..Len(l) : l[i] = NonStr

encode(text) == [raised |-> FALSE, vector |-> text]

encode_work_experience(experience) ==
    LET text_parts ==
            (IF TruthyStr(experience, "title")
                THEN <<Part("Title", <<experience.title>>)>> ELSE <<>>)
            \o (IF TruthyStr(experience, "company")
                THEN <<Part("Company", <<experience.company>>)>> ELSE <<>>)
            \o (IF TruthyStr(experience, "description")
                THEN <<Part("Description", <<experience.description>>)>> ELSE <<>>)
            \o (IF TruthyList(experience, "technologies")
                THEN <<Part("Technologies", experience.technologies)>> ELSE <<>>)
    IN  IF TruthyList(experience, "technologies") /\ JoinRaises(experience.technologies)
        THEN [raised |-> TRUE, vector |-> <<>>]
        ELSE encode(text_parts)

encode_project(project) ==
    LET text_parts ==
            (IF TruthyStr(project, "name")
                THEN <<Part("Project", <<project.name>>)>> ELSE <<>>)
            \o (IF TruthyStr(project, "description")
                THEN <<Part("Description", <<project.description>>)>> ELSE <<>>)
            \o (IF TruthyList(project, "technologies")
                THEN <<Part("Technologies", project.technologies)>> ELSE <<>>)
    IN  IF TruthyList(project, "technologies") /\ JoinRaises(project.technologies)
        THEN [raised |-> TRUE, vector |-> <<>>]
        ELSE encode(text_parts)

encode_skill(skill) ==
    LET name == IF "skill" \in DOMAIN skill THEN skill.skill
                ELSE IF "name" \in DOMAIN skill THEN skill.name ELSE ""
        text == IF IsStr(skill)
                THEN <<Part("Skill", <<skill.str>>)>>
                ELSE <<Part("Skill", <<name>>)>>
                     \o (IF TruthyStr(skill, "proficiency")
                         THEN <<Part("Proficiency", <<skill.proficiency>>)>> ELSE <<>>)
    IN  encode(text)

encode_qa_pair(question, answer) ==
    LET text == IF answer # ""
                THEN <<Part("Question", <<question>>), Part("Answer", <<answer>>)>>
                ELSE <<Part("Question", <<question>>)>>
    IN  encode(text)

\* the query is embedded as plain text, without labels
encode_question(question) == encode(<<Part("", <<question>>)>>)

\* Cosine similarity as the store computes it, in hundredths.  The terms a
\* question is close to stand for the geometry of the embedding space.
RelatedTerms(question) ==
    IF question = "backend engineer roles"
    THEN {"Backend Engineer", "Built APIs", "Python", "I like APIs"}
    ELSE {}

Similarity(query_vector, vector) ==
    LET q == query_vector[1].value[1]
        close == {i \in 1..Len(vector) :
                     \E j \in 1..Len(vector[i].value) : vector[i].value[j] \in RelatedTerms(q)}
    IN  10 + 25 * Cardinality(close)

----------------------------------------------------------------------------
\* Vector store client (qdrant_service.py).  A point is [id, vector, payload].

AllPoints(pts) == UNION {pts[c] : c \in CollectionNames}

UsedIds(pts) == {p.id : p \in AllPoints(pts)}

\* str(uuid.uuid4()): an identifier no stored point has.  Identifiers never
\* leave the store (a search result carries score and payload only), so which
\* unused one is drawn is not observable: the draw is the least unused number
\* in the namespace of the owner and local id the point is made for.
\* an id derived from the owner and the local id instead of a fresh one
uuid4_keyed(pts, kb_id, local_id) == <<kb_id, local_id, 0>>

uuid4(pts, kb_id, local_id) ==
    LET Unused(n) == <<kb_id, local_id, n>> \notin UsedIds(pts)
    IN  <<kb_id, local_id,
          CHOOSE n \in 0..Cardinality(UsedIds(pts)) :
              Unused(n) /\ \A m \in 0..(n - 1) : ~Unused(m)>>

\* the keys the upsert_* calls write the local id under
LocalIdKeys == {"experience_id", "project_id", "skill_id", "qa_id"}

\* a store keyed by owner and local id: the point takes the place of the
\* stored points that carry its owner and its local id
client_upsert_by_local_id(ex, pts, collection, point, fails) ==
    LET Same(p) == /\ p.payload.kb_id = point.payload.kb_id
                   /\ \A k \in LocalIdKeys \cap DOMAIN point.payload :
                        k \in DOMAIN p.payload /\ p.payload[k] = point.payload[k]
    IN  IF fails \/ collection \notin ex
        THEN [raised |-> TRUE, points |-> pts]
        ELSE [raised |-> FALSE,
              points |-> [pts EXCEPT ![collection] = {p \in @ : ~Same(p)} \cup {point}]]

\* client.upsert(collection_name, points=[point]): keyed by point id; raises when
\* the collection is missing or the round-trip fails
client_upsert(ex, pts, collection, point, fails) ==
    IF fails \/ collection \notin ex
    THEN [raised |-> TRUE, points |-> pts]
    ELSE [raised |-> FALSE,
          points |-> [pts EXCEPT ![collection] = {p \in @ : p.id # point.id} \cup {point}]]

upsert_work_experience(ex, pts, kb_id, experience_id, vector, payload, fails) ==
    LET point == [id |-> uuid4(pts, kb_id, experience_id), vector |-> vector,
                  payload |-> ("kb_id" :> kb_id @@ "experience_id" :> experience_id
                               @@ "type" :> "work_experience" @@ payload)]
    IN  client_upsert(ex, pts, COLLECTION_EXPERIENCES, point, fails)

\* an upsert that lays the record over the decoration
upsert_project_record_wins(ex, pts, kb_id, project_id, vector, payload, fails) ==
    LET point == [id |-> uuid4(pts, kb_id, project_id), vector |-> vector,
                  payload |-> (payload @@ "kb_id" :> kb_id @@ "project_id" :> project_id
                               @@ "type" :> "project")]
    IN  client_upsert(ex, pts, COLLECTION_PROJECTS, point, fails)

upsert_project(ex, pts, kb_id, project_id, vector, payload, fails) ==
    LET point == [id |-> uuid4(pts, kb_id, project_id), vector |-> vector,
                  payload |-> ("kb_id" :> kb_id @@ "project_id" :> project_id
                               @@ "type" :> "project" @@ payload)]
    IN  client_upsert(ex, pts, COLLECTION_PROJECTS, point, fails)

upsert_skill(ex, pts, kb_id, skill_id, vector, payload, fails) ==
    LET point == [id |-> uuid4(pts, kb_id, skill_id), vector |-> vector,
                  payload |-> ("kb_id" :> kb_id @@ "skill_id" :> skill_id
                               @@ "type" :> "skill" @@ payload)]
    IN  client_upsert(ex, pts, COLLECTION_SKILLS, point, fails)

upsert_qa_pair(ex, pts, kb_id, qa_id, vector, payload, fails) ==
    LET point == [id |-> uuid4(pts, kb_id, qa_id), vector |-> vector,
                  payload |-> ("kb_id" :> kb_id @@ "qa_id" :> qa_id
                               @@ "type" :> "qa" @@ payload)]
    IN  client_upsert(ex, pts, COLLECTION_QA, point, fails)

\* Filter(must=[FieldCondition(key="kb_id", match=MatchValue(value=kb_id))])
\* a store that ignores the owner condition of the filter
KbFilter_ignored(p, kb_id) == TRUE

KbFilter(p, kb_id) == p.payload.kb_id = kb_id

Min2(a, b) == IF a < b THEN a ELSE b

\* the rankings of the n best points of M by descending score, ties in any order
RECURSIVE Rankings(_, _, _)
Rankings(M, n, query_vector) ==
    IF n = 0 \/ M = {}
    THEN {<<>>}
    ELSE LET best == {p \in M : \A o \in M :
                        Similarity(query_vector, p.vector) >= Similarity(query_vector, o.vector)}
         IN  UNION {{<<p>> \o r : r \in Rankings(M \ {p}, n - 1, query_vector)} : p \in best}

\* a store that ignores the limit and answers with every point that passes
query_points_unlimited(pts, collection, query_vector, kb_id, limit) ==
    LET M == {p \in pts[collection] : KbFilter(p, kb_id)}
    IN  Rankings(M, Cardinality(M), query_vector)

\* client.query_points(...).points: what the store may answer with: the limit
\* best points that pass the filter
query_points(pts, collection, query_vector, kb_id, limit) ==
    LET M == {p \in pts[collection] : KbFilter(p, kb_id)}
    IN  Rankings(M, Min2(limit, Cardinality(M)), query_vector)

\* the list comprehension every search_* ends with
Hits(results, query_vector) ==
    [i \in 1..Len(results) |->
        [score |-> Similarity(query_vector, results[i].vector),
         payload |-> results[i].payload]]

search_experiences(pts, query_vector, kb_id, limit) ==
    {Hits(r, query_vector) :
        r \in query_points(pts, COLLECTION_EXPERIENCES, query_vector, kb_id, limit)}

search_projects(pts, query_vector, kb_id, limit) ==
    {Hits(r, query_vector) :
        r \in query_points(pts, COLLECTION_PROJECTS, query_vector, kb_id, limit)}

search_skills(pts, query_vector, kb_id, limit) ==
    {Hits(r, query_vector) :
        r \in query_points(pts, COLLECTION_SKILLS, query_vector, kb_id, limit)}

search_qa_pairs(pts, query_vector, kb_id, limit) ==
    {Hits(r, query_vector) :
        r \in query_points(pts, COLLECTION_QA, query_vector, kb_id, limit)}

\* a delete round-trip that is acknowledged and removes nothing
client_delete_ack_only(ex, pts, collection, kb_id, fails) ==
    [raised |-> fails \/ collection \notin ex, points |-> pts]

\* a delete round-trip whose selector has no owner condition: the collection
\* is emptied
client_delete_unfiltered(ex, pts, collection, kb_id, fails) ==
    IF fails \/ collection \notin ex
    THEN [raised |-> TRUE, points |-> pts]
    ELSE [raised |-> FALSE, points |-> [pts EXCEPT ![collection] = {}]]

\* client.delete(collection_name, points_selector=Filter(kb_id)) of one collection
client_delete(ex, pts, collection, kb_id, fails) ==
    IF fails \/ collection \notin ex
    THEN [raised |-> TRUE, points |-> pts]
    ELSE [raised |-> FALSE,
          points |-> [pts EXCEPT ![collection] = {p \in @ : ~KbFilter(p, kb_id)}]]

\* the loop of delete_by_kb_id from position i on: every collection is tried,
\* a failure is logged and the loop goes on
RECURSIVE delete_loop(_, _, _, _, _)
delete_loop(i, ex, pts, kb_id, faults) ==
    IF i > Len(Collections)
    THEN [raised |-> FALSE, points |-> pts, attempted |-> <<>>, failed |-> {}]
    ELSE LET collection == Collections[i]
             d == client_delete(ex, pts, collection, kb_id, collection \in faults)
             rest == delete_loop(i + 1, ex, d.points, kb_id, faults)
         IN  [raised |-> FALSE,
              points |-> rest.points,
              attempted |-> <<collection>> \o rest.attempted,
              failed |-> (IF d.raised THEN {collection} ELSE {}) \cup rest.failed]

\* a cascade without the per-collection handler: the first failure ends it
RECURSIVE delete_loop_abort(_, _, _, _, _)
delete_loop_abort(i, ex, pts, kb_id, faults) ==
    IF i > Len(Collections)
    THEN [raised |-> FALSE, points |-> pts, attempted |-> <<>>, failed |-> {}]
    ELSE LET collection == Collections[i]
             d == client_delete(ex, pts, collection, kb_id, collection \in faults)
             rest == delete_loop_abort(i + 1, ex, d.points, kb_id, faults)
         IN  IF d.raised
             THEN [raised |-> TRUE, points |-> pts,
                   attempted |-> <<collection>>, failed |-> {collection}]
             ELSE [rest EXCEPT !.attempted = <<collection>> \o @]

delete_by_kb_id_abort(ex, pts, kb_id, faults) == delete_loop_abort(1, ex, pts, kb_id, faults)

delete_by_kb_id(ex, pts, kb_id, faults) == delete_loop(1, ex, pts, kb_id, faults)

----------------------------------------------------------------------------
\* Indexing pipeline (rag_service.py, index_knowledge_base).  Each loop runs
\* from position idx on; faults names the local ids whose upsert round-trip
\* fails.  The log has one entry per item the loop body ran for.

LogEntry(local_id, raised) == [local_id |-> local_id, stored |-> ~raised]

RECURSIVE index_work_experiences(_, _, _, _, _, _)
index_work_experiences(items, idx, kb_id, ex, pts, faults) ==
    IF idx >= Len(items)
    THEN [points |-> pts, log |-> <<>>]
    ELSE LET exp == items[idx + 1]
             local_id == <<"exp", idx>>
             enc == encode_work_experience(exp)
             up == IF enc.raised
                   THEN [raised |-> TRUE, points |-> pts]
                   ELSE upsert_work_experience(ex, pts, kb_id, local_id, enc.vector, exp,
                                               local_id \in faults)
             rest == index_work_experiences(items, idx + 1, kb_id, ex, up.points, faults)
         IN  [points |-> rest.points,
              log |-> <<LogEntry(local_id, up.raised)>> \o rest.log]

\* a project loop without the per-item handler: the first failure ends it
RECURSIVE index_projects_abort(_, _, _, _, _, _)
index_projects_abort(items, idx, kb_id, ex, pts, faults) ==
    IF idx >= Len(items)
    THEN [points |-> pts, log |-> <<>>]
    ELSE LET proj == items[idx + 1]
             local_id == <<"proj", idx>>
             enc == encode_project(proj)
             up == IF enc.raised
                   THEN [raised |-> TRUE, points |-> pts]
                   ELSE upsert_project(ex, pts, kb_id, local_id, enc.vector, proj,
                                       local_id \in faults)
             rest == index_projects_abort(items, idx + 1, kb_id, ex, up.points, faults)
         IN  IF up.raised
             THEN [points |-> pts, log |-> <<LogEntry(local_id, TRUE)>>]
             ELSE [points |-> rest.points,
                   log |-> <<LogEntry(local_id, FALSE)>> \o rest.log]

\* a project loop that numbers a project by the owner's projects in the store
RECURSIVE index_projects_counting(_, _, _, _, _, _)
index_projects_counting(items, idx, kb_id, ex, pts, faults) ==
    IF idx >= Len(items)
    THEN [points |-> pts, log |-> <<>>]
    ELSE LET proj == items[idx + 1]
             local_id == <<"proj", idx>>
             stored_id == <<"proj", Cardinality({p \in pts[COLLECTION_PROJECTS] :
                                                    p.payload.kb_id = kb_id})>>
             enc == encode_project(proj)
             up == IF enc.raised
                   THEN [raised |-> TRUE, points |-> pts]
                   ELSE upsert_project(ex, pts, kb_id, stored_id, enc.vector, proj,
                                       local_id \in faults)
             rest == index_projects_counting(items, idx + 1, kb_id, ex, up.points, faults)
         IN  [points |-> rest.points,
              log |-> <<LogEntry(local_id, up.raised)>> \o rest.log]

RECURSIVE index_projects(_, _, _, _, _, _)
index_projects(items, idx, kb_id, ex, pts, faults) ==
    IF idx >= Len(items)
    THEN [points |-> pts, log |-> <<>>]
    ELSE LET proj == items[idx + 1]
             local_id == <<"proj", idx>>
             enc == encode_project(proj)
             up == IF enc.raised
                   THEN [raised |-> TRUE, points |-> pts]
                   ELSE upsert_project(ex, pts, kb_id, local_id, enc.vector, proj,
                                       local_id \in faults)
             rest == index_projects(items, idx + 1, kb_id, ex, up.points, faults)
         IN  [points |-> rest.points,
              log |-> <<LogEntry(local_id, up.raised)>> \o rest.log]

RECURSIVE index_skills(_, _, _, _, _, _)
index_skills(items, idx, kb_id, ex, pts, faults) ==
    IF idx >= Len(items)
    THEN [points |-> pts, log |-> <<>>]
    ELSE LET skill == items[idx + 1]
             local_id == <<"skill", idx>>
             enc == encode_skill(skill)
             skill_payload == IF IsStr(skill) THEN [skill |-> skill.str] ELSE skill
             up == IF enc.raised
                   THEN [raised |-> TRUE, points |-> pts]
                   ELSE upsert_skill(ex, pts, kb_id, local_id, enc.vector, skill_payload,
                                     local_id \in faults)
             rest == index_skills(items, idx + 1, kb_id, ex, up.points, faults)
         IN  [points |-> rest.points,
              log |-> <<LogEntry(local_id, up.raised)>> \o rest.log]

RECURSIVE index_qa_pairs(_, _, _, _, _, _)
index_qa_pairs(items, idx, kb_id, ex, pts, faults) ==
    IF idx >= Len(items)
    THEN [points |-> pts, log |-> <<>>]
    ELSE LET question == items[idx + 1][1]
             answer == items[idx + 1][2]
             local_id == <<"qa", idx>>
             enc == encode_qa_pair(question, answer)
             up == IF enc.raised
                   THEN [raised |-> TRUE, points |-> pts]
                   ELSE upsert_qa_pair(ex, pts, kb_id, local_id, enc.vector,
                                       [question |-> question, answer |-> answer],
                                       local_id \in faults)
             rest == index_qa_pairs(items, idx + 1, kb_id, ex, up.points, faults)
         IN  [points |-> rest.points,
              log |-> <<LogEntry(local_id, up.raised)>> \o rest.log]

\* a pipeline that raises to its caller when an item failed
index_knowledge_base_strict(kb_id, knowledge_base, ex, pts, faults) ==
    LET e == index_work_experiences(knowledge_base.work_experience, 0, kb_id, ex, pts, faults)
        p == index_projects(knowledge_base.projects, 0, kb_id, ex, e.points, faults)
        s == index_skills(knowledge_base.skills, 0, kb_id, ex, p.points, faults)
        q == index_qa_pairs(knowledge_base.qa_pairs, 0, kb_id, ex, s.points, faults)
        log == e.log \o p.log \o s.log \o q.log
    IN  [raised |-> \E i \in 1..Len(log) : ~log[i].stored, points |-> q.points, log |-> log]

\* stand-in for a qa_pairs value that is a list and not a dict: it has no
\* items() to iterate over
NotAMapping == "<list>"

QaAsList == <<<<NotAMapping, "Why this role?">>>>

\* qa_pairs.items() raises AttributeError
ItemsRaises(qa_pairs) == \E i \in 1..Len(qa_pairs) : qa_pairs[i][1] = NotAMapping

\* RAGService.index_knowledge_base: the four loops in order.  The loops over
\* the lists have run when the head of the Q&A loop calls qa_pairs.items(),
\* outside the try of the loop body: on a qa_pairs that is not a dict the call
\* raises to the caller.
index_knowledge_base(kb_id, knowledge_base, ex, pts, faults) ==
    LET e == index_work_experiences(knowledge_base.work_experience, 0, kb_id, ex, pts, faults)
        p == index_projects(knowledge_base.projects, 0, kb_id, ex, e.points, faults)
        s == index_skills(knowledge_base.skills, 0, kb_id, ex, p.points, faults)
        q == index_qa_pairs(knowledge_base.qa_pairs, 0, kb_id, ex, s.points, faults)
    IN  IF ItemsRaises(knowledge_base.qa_pairs)
        THEN [raised |-> TRUE, points |-> s.points, log |-> e.log \o p.log \o s.log]
        ELSE [raised |-> FALSE, points |-> q.points,
              log |-> e.log \o p.log \o s.log \o q.log]

\* the local ids of a snapshot, in pipeline order
LocalIds(knowledge_base) ==
    [i \in 1..Len(knowledge_base.work_experience) |-> <<"exp", i - 1>>]
    \o [i \in 1..Len(knowledge_base.projects) |-> <<"proj", i - 1>>]
    \o [i \in 1..Len(knowledge_base.skills) |-> <<"skill", i - 1>>]
    \o [i \in 1..Len(knowledge_base.qa_pairs) |-> <<"qa", i - 1>>]

ItemCount(knowledge_base) == Len(LocalIds(knowledge_base))

----------------------------------------------------------------------------
\* Retriever (rag_service.py, retrieve_relevant_context).  fault names the
\* round-trip that fails: "encode", one of the collections, or "none".

NoLists == [experiences |-> <<>>, projects |-> <<>>, skills |-> <<>>, qa_pairs |-> <<>>]

RetrieveFaults == {"none", "encode"} \cup CollectionNames

SearchRaises(ex, collection, fault) == collection \notin ex \/ fault = collection

\* a retriever with a handler around each search: a failing search leaves its
\* list empty and the others are returned
retrieve_relevant_context_degraded(ex, pts, question, kb_id, max_experiences, max_projects, max_skills, fault) ==
    LET query_vector == encode_question(question).vector
        Or(raises, results) == IF raises THEN {<<>>} ELSE results
    IN  IF fault = "encode"
        THEN {[raised |-> TRUE, lists |-> NoLists, encodes |-> 1, searches |-> 0]}
        ELSE {[raised |-> FALSE,
               lists |-> [experiences |-> e, projects |-> p, skills |-> s, qa_pairs |-> q],
               encodes |-> 1, searches |-> 4] :
                 e \in Or(SearchRaises(ex, COLLECTION_EXPERIENCES, fault),
                          search_experiences(pts, query_vector, kb_id, max_experiences)),
                 p \in Or(SearchRaises(ex, COLLECTION_PROJECTS, fault),
                          search_projects(pts, query_vector, kb_id, max_projects)),
                 s \in Or(SearchRaises(ex, COLLECTION_SKILLS, fault),
                          search_skills(pts, query_vector, kb_id, max_skills)),
                 q \in Or(SearchRaises(ex, COLLECTION_QA, fault),
                          search_qa_pairs(pts, query_vector, kb_id, QaLimit))}

Reverse(l) == [i \in 1..Len(l) |-> l[Len(l) + 1 - i]]

\* a retriever that hands the Q&A pairs back least similar first
retrieve_relevant_context_reranked(ex, pts, question, kb_id, max_experiences, max_projects, max_skills, fault) ==
    LET query_vector == encode_question(question).vector
        Raised(encodes, searches) ==
            {[raised |-> TRUE, lists |-> NoLists, encodes |-> encodes, searches |-> searches]}
    IN  IF fault = "encode" THEN Raised(1, 0)
        ELSE IF SearchRaises(ex, COLLECTION_EXPERIENCES, fault) THEN Raised(1, 1)
        ELSE IF SearchRaises(ex, COLLECTION_PROJECTS, fault) THEN Raised(1, 2)
        ELSE IF SearchRaises(ex, COLLECTION_SKILLS, fault) THEN Raised(1, 3)
        ELSE IF SearchRaises(ex, COLLECTION_QA, fault) THEN Raised(1, 4)
        ELSE {[raised |-> FALSE,
               lists |-> [experiences |-> e, projects |-> p, skills |-> s,
                          qa_pairs |-> Reverse(q)],
               encodes |-> 1, searches |-> 4] :
                 e \in search_experiences(pts, query_vector, kb_id, max_experiences),
                 p \in search_projects(pts, query_vector, kb_id, max_projects),
                 s \in search_skills(pts, query_vector, kb_id, max_skills),
                 q \in search_qa_pairs(pts, query_vector, kb_id, QaLimit)}

\* the outcomes of one call: it raised (after so many round-trips), or it
\* returned the four lists as the store ranked them
retrieve_relevant_context(ex, pts, question, kb_id, max_experiences, max_projects, max_skills, fault) ==
    LET query_vector == encode_question(question).vector
        Raised(encodes, searches) ==
            {[raised |-> TRUE, lists |-> NoLists, encodes |-> encodes, searches |-> searches]}
    IN  IF fault = "encode" THEN Raised(1, 0)
        ELSE IF SearchRaises(ex, COLLECTION_EXPERIENCES, fault) THEN Raised(1, 1)
        ELSE IF SearchRaises(ex, COLLECTION_PROJECTS, fault) THEN Raised(1, 2)
        ELSE IF SearchRaises(ex, COLLECTION_SKILLS, fault) THEN Raised(1, 3)
        ELSE IF SearchRaises(ex, COLLECTION_QA, fault) THEN Raised(1, 4)
        ELSE {[raised |-> FALSE,
               lists |-> [experiences |-> e, projects |-> p, skills |-> s, qa_pairs |-> q],
               encodes |-> 1, searches |-> 4] :
                 e \in search_experiences(pts, query_vector, kb_id, max_experiences),
                 p \in search_projects(pts, query_vector, kb_id, max_projects),
                 s \in search_skills(pts, query_vector, kb_id, max_skills),
                 q \in search_qa_pairs(pts, query_vector, kb_id, QaLimit)}

\* a delete that returns without a round-trip to the store
delete_knowledge_base_noop(ex, pts, kb_id, faults) ==
    [raised |-> FALSE, points |-> pts, attempted |-> <<>>, failed |-> {}]

\* RAGService.delete_knowledge_base
delete_knowledge_base(ex, pts, kb_id, faults) == delete_by_kb_id(ex, pts, kb_id, faults)

----------------------------------------------------------------------------
\* Context builder (rag_service.py, build_context_string).  Texts are strings;
\* a score is in hundredths.

\* the characters description[:200] keeps
DescriptionBudget == 200

\* the characters answer[:150] keeps
AnswerBudget == 150

\* the names skills_list[:10] keeps
SkillBudget == 10

\* a slice that keeps everything
Slice_whole(s, n) == s

\* s[:n]
Slice(s, n) == SubSeq(s, 1, Min2(n, Len(s)))

\* d.get(k, default)
Get(d, k, default) == IF k \in DOMAIN d THEN d[k] ELSE default

\* f"{d.get(k)}": a missing key is formatted as None
Fmt(d, k) == Get(d, k, "None")

\* f"{score:.2f}"
Format2f(score) ==
    ToString(score \div 100) \o "."
        \o ToString((score % 100) \div 10) \o ToString(score % 10)

\* sep.join(parts)
RECURSIVE Join(_, _)
Join(parts, sep) ==
    IF parts = <<>> THEN ""
    ELSE IF Len(parts) = 1 THEN parts[1]
    ELSE parts[1] \o sep \o Join(Tail(parts), sep)

\* the concatenation of a sequence of sequences of lines
RECURSIVE Flatten(_)
Flatten(groups) == IF groups = <<>> THEN <<>> ELSE groups[1] \o Flatten(Tail(groups))

ExperiencesHeader == "Relevant Work Experience:"

\* a projects header without the newline in front of it
ProjectsHeader_flush == "Relevant Projects:"

ProjectsHeader == "\nRelevant Projects:"

SkillsHeader == "\nRelevant Skills: "

QaHeader == "\nSimilar Questions You've Answered:"

build_context_string(retrieved_context) ==
    LET experiences == retrieved_context.experiences
        projects == retrieved_context.projects
        skills == retrieved_context.skills
        qa_pairs == retrieved_context.qa_pairs
        ExpLines(item) ==
            <<"- " \o Fmt(item.payload, "title") \o " at " \o Fmt(item.payload, "company")
                \o " (relevance: " \o Format2f(item.score) \o ")",
              "  " \o Slice(Get(item.payload, "description", ""), DescriptionBudget)>>
        ProjLines(item) ==
            <<"- " \o Fmt(item.payload, "name")
                \o " (relevance: " \o Format2f(item.score) \o ")",
              "  " \o Slice(Get(item.payload, "description", ""), DescriptionBudget)>>
        QaLines(item) ==
            <<"Q: " \o Fmt(item.payload, "question"),
              "A: " \o Slice(Get(item.payload, "answer", ""), AnswerBudget)>>
        skills_list == [i \in 1..Len(skills) |-> Get(skills[i].payload, "skill", "")]
        context_parts ==
            (IF experiences # <<>>
             THEN <<ExperiencesHeader>>
                    \o Flatten([i \in 1..Len(experiences) |-> ExpLines(experiences[i])])
             ELSE <<>>)
            \o (IF projects # <<>>
                THEN <<ProjectsHeader>>
                       \o Flatten([i \in 1..Len(projects) |-> ProjLines(projects[i])])
                ELSE <<>>)
            \o (IF skills # <<>>
                THEN <<SkillsHeader
                        \o Join(SubSeq(skills_list, 1, Min2(SkillBudget, Len(skills_list))), ", ")>>
                ELSE <<>>)
            \o (IF qa_pairs # <<>>
                THEN <<QaHeader>>
                       \o Flatten([i \in 1..Len(qa_pairs) |-> QaLines(qa_pairs[i])])
                ELSE <<>>)
    IN  Join(context_parts, "\n")

----------------------------------------------------------------------------
\* Startup (qdrant_service.py, create_collections).

\* client.get_collection(name) raises: the collection is not there
get_collection_raises(ex, collection_name) == collection_name \notin ex

\* client.create_collection(name, ...): the store refuses a name it already has
create_collection(ex, collection_name) ==
    IF collection_name \in ex
    THEN [raised |-> TRUE, existing |-> ex]
    ELSE [raised |-> FALSE, existing |-> ex \cup {collection_name}]

\* a startup that recreates every collection, those that exist included
RECURSIVE create_collections_recreate(_, _, _)
create_collections_recreate(i, ex, pts) ==
    IF i > Len(Collections)
    THEN [raised |-> FALSE, existing |-> ex, points |-> pts, created |-> {}]
    ELSE LET collection_name == Collections[i]
             rest == create_collections_recreate(i + 1, ex \cup {collection_name},
                                                 [pts EXCEPT ![collection_name] = {}])
         IN  [rest EXCEPT !.created = @ \cup {collection_name}]

\* the loop of create_collections from position i on, run without interruption
RECURSIVE create_collections(_, _, _)
create_collections(i, ex, pts) ==
    IF i > Len(Collections)
    THEN [raised |-> FALSE, existing |-> ex, points |-> pts, created |-> {}]
    ELSE LET collection_name == Collections[i]
         IN  IF ~get_collection_raises(ex, collection_name)
             THEN create_collections(i + 1, ex, pts)
             ELSE LET c == create_collection(ex, collection_name)
                      rest == create_collections(i + 1, c.existing, pts)
                  IN  IF c.raised
                      THEN [raised |-> TRUE, existing |-> ex, points |-> pts, created |-> {}]
                      ELSE [rest EXCEPT !.created = @ \cup {collection_name}]

----------------------------------------------------------------------------
\* The knowledge_base table (models/knowledge_base.py) and the responses.

\* embedding_id is NULL
None == <<>>

\* f"indexed_{kb_id}"
IndexedToken(kb_id) == <<"indexed", kb_id>>

NoKb == [present |-> FALSE, embedding_id |-> None, data |-> NoData]

\* select(KnowledgeBase).where(KnowledgeBase.user_id == 1): the rows of the user
UserRows == {k \in KbIds : db[k].present}

\* not kb.embedding_id
\* a precheck that lets every row through
NotIndexed_never(kb) == FALSE

\* a precheck that takes an empty knowledge base for one that is not indexed
NotIndexed_or_empty(kb) == kb.embedding_id = None \/ ItemCount(kb.data) = 0

NotIndexed(kb) == kb.embedding_id = None

NoLimits == [max_experiences |-> 0, max_projects |-> 0, max_skills |-> 0]

NoCounts == [experiences |-> 0, projects |-> 0, skills |-> 0, qa_pairs |-> 0]

\* the lengths the pipeline logs and /rag/index returns
Counts(knowledge_base) ==
    [experiences |-> Len(knowledge_base.work_experience),
     projects |-> Len(knowledge_base.projects),
     skills |-> Len(knowledge_base.skills),
     qa_pairs |-> Len(knowledge_base.qa_pairs)]

\* the characters context_str[:500] keeps
ExcerptBudget == 500

NoRetrievedContext ==
    [num_experiences |-> 0, num_projects |-> 0, num_skills |-> 0, num_qa_pairs |-> 0]

\* "retrieved_context" of the answer response
retrieved_counts(retrieved) ==
    [num_experiences |-> Len(retrieved.experiences),
     num_projects |-> Len(retrieved.projects),
     num_skills |-> Len(retrieved.skills),
     num_qa_pairs |-> Len(retrieved.qa_pairs)]

\* an excerpt cut at the budget without the ellipsis
context_used_bare(context_str) == Slice(context_str, ExcerptBudget)

\* "context_used" of the answer response
context_used(context_str) ==
    IF Len(context_str) > ExcerptBudget
    THEN Slice(context_str, ExcerptBudget) \o "..."
    ELSE context_str

\* what a request leaves behind: the operation, the owner it addressed, the
\* HTTP status, and what the operation did on the way
Response(op, kb_id, status) ==
    [op |-> op, kb_id |-> kb_id, status |-> status, detail |-> "",
     question |-> "", limits |-> NoLimits, lists |-> NoLists,
     counts |-> NoCounts, log |-> <<>>,
     attempted |-> <<>>, failed |-> {}, removed |-> 0, created |-> {},
     fault |-> "none", encodes |-> 0, searches |-> 0, generates |-> 0,
     context |-> "", retrieved_context |-> NoRetrievedContext, context_used |-> "",
     record |-> <<>>, text |-> <<>>]

PointCount == Cardinality(AllPoints(points))

\* the upsert round-trips of one pipeline run that fail: any subset
FaultSets(knowledge_base) ==
    SUBSET {LocalIds(knowledge_base)[i] : i \in 1..ItemCount(knowledge_base)}

\* the delete round-trips of one cascade that fail: none, or any one
DeleteFaultSets == {{}} \cup {{c} : c \in CollectionNames}

Init ==
    /\ db = [k \in KbIds |-> NoKb]
    /\ nextKbId = 1
    /\ existing = {}
    /\ points = [c \in CollectionNames |-> {}]
    /\ last = Response("none", 0, 0)
    /\ inst = <<>>

----------------------------------------------------------------------------
\* main.py, startup_event: a process instance starts and ensures the collections
startup_event ==
    LET r == create_collections(1, existing, points)
    IN  /\ existing' = r.existing
        /\ points' = r.points
        /\ last' = [Response("startup", 0, IF r.raised THEN 500 ELSE 200)
                        EXCEPT !.created = r.created]
        /\ UNCHANGED <<db, nextKbId, inst>>

\* QdrantService.delete_collection: the collection goes with its points; a
\* failure is logged and swallowed
delete_collection(collection_name) ==
    /\ existing' = existing \ {collection_name}
    /\ points' = [points EXCEPT ![collection_name] = {}]
    /\ last' = Response("delete_collection", 0, 200)
    /\ UNCHANGED <<db, nextKbId, inst>>

----------------------------------------------------------------------------
\* knowledge_base.py endpoints

\* POST /knowledge-base/
kb_create(data) ==
    /\ nextKbId <= MaxKbs
    /\ IF UserRows # {}
       THEN /\ last' = Response("kb_create", 0, 400)
            /\ UNCHANGED <<db, nextKbId>>
       ELSE /\ db' = [db EXCEPT ![nextKbId] =
                        [present |-> TRUE, embedding_id |-> None, data |-> data]]
            /\ nextKbId' = nextKbId + 1
            /\ last' = Response("kb_create", nextKbId, 201)
    /\ UNCHANGED <<existing, points, inst>>

\* PATCH /knowledge-base/ : the fields are committed, then the row is
\* re-indexed when asked for and already indexed.  logger is not imported in
\* knowledge_base.py: the line after the pipeline raises NameError, and so
\* does the handler that catches it.
kb_update(data, auto_reindex, faults) ==
    IF UserRows = {}
    THEN /\ last' = Response("kb_update", 0, 404)
         /\ UNCHANGED <<db, nextKbId, existing, points, inst>>
    ELSE \E k \in UserRows :
            LET kb == [db[k] EXCEPT !.data = data]
                r == index_knowledge_base(k, data, existing, points, faults)
            IN  /\ db' = [db EXCEPT ![k] = kb]
                /\ IF auto_reindex /\ ~NotIndexed(kb)
                   THEN /\ Cardinality(AllPoints(r.points)) <= MaxPoints
                        /\ points' = r.points
                        /\ last' = [Response("kb_update", k, 500)
                                        EXCEPT !.log = r.log, !.counts = Counts(data)]
                   ELSE /\ faults = {}
                        /\ points' = points
                        /\ last' = Response("kb_update", k, 200)
                /\ UNCHANGED <<nextKbId, existing, inst>>

\* DELETE /knowledge-base/ : the row goes, the vector store is not touched
kb_delete ==
    IF UserRows = {}
    THEN /\ last' = Response("kb_delete", 0, 404)
         /\ UNCHANGED <<db, nextKbId, existing, points, inst>>
    ELSE \E k \in UserRows :
            /\ db' = [db EXCEPT ![k] = NoKb]
            /\ last' = Response("kb_delete", k, 204)
            /\ UNCHANGED <<nextKbId, existing, points, inst>>

----------------------------------------------------------------------------
\* rag.py endpoints

\* POST /rag/index ; request_kb_id 0 stands for an absent (or zero) kb_id
rag_index(request_kb_id, faults) ==
    LET kb_id == IF request_kb_id = 0 THEN HardcodedUser ELSE request_kb_id
        kb == db[kb_id]
        r == index_knowledge_base(kb_id, kb.data, existing, points, faults)
    IN  IF ~kb.present
        THEN /\ faults = {}
             /\ last' = [Response("rag_index", kb_id, 404) EXCEPT !.detail = "not found"]
             /\ UNCHANGED <<db, nextKbId, existing, points, inst>>
        ELSE /\ faults \in FaultSets(kb.data)
             /\ Cardinality(AllPoints(r.points)) <= MaxPoints
             /\ points' = r.points
             /\ IF r.raised
                THEN /\ db' = db
                     /\ last' = [Response("rag_index", kb_id, 500) EXCEPT !.log = r.log]
                ELSE /\ db' = [db EXCEPT ![kb_id].embedding_id = IndexedToken(kb_id)]
                     /\ last' = [Response("rag_index", kb_id, 200)
                                    EXCEPT !.log = r.log, !.counts = Counts(kb.data)]
             /\ UNCHANGED <<nextKbId, existing, inst>>

\* the first lines of /rag/search and /rag/answer-with-rag: the row of the
\* hard-coded user, 404 without it, 400 while it is not indexed
Precheck(op) ==
    LET kb == db[HardcodedUser]
    IN  IF ~kb.present
        THEN [Response(op, HardcodedUser, 404) EXCEPT !.detail = "not found"]
        ELSE IF NotIndexed(kb)
        THEN [Response(op, HardcodedUser, 400) EXCEPT !.detail = "not indexed"]
        ELSE Response(op, HardcodedUser, 200)

\* SearchRequest: max_experiences = 3, max_projects = 2, max_skills = 5
DefaultMaxExperiences == 3

DefaultMaxProjects == 2

DefaultMaxSkills == 5

DefaultLimits ==
    [max_experiences |-> DefaultMaxExperiences, max_projects |-> DefaultMaxProjects,
     max_skills |-> DefaultMaxSkills]

\* the limits a request body carries: the defaults, or a small limit for each kind
LimitChoices ==
    {DefaultLimits,
     [max_experiences |-> SmallLimit, max_projects |-> SmallLimit,
      max_skills |-> SmallLimit]}

\* POST /rag/search
rag_search(question, max_experiences, max_projects, max_skills, fault) ==
    LET pre == Precheck("rag_search")
        asked == [pre EXCEPT !.question = question,
                             !.limits = [max_experiences |-> max_experiences,
                                         max_projects |-> max_projects,
                                         max_skills |-> max_skills]]
    IN  /\ IF pre.status # 200
           THEN /\ fault = "none"
                /\ last' = asked
           ELSE \E r \in retrieve_relevant_context(existing, points, question, HardcodedUser,
                                                   max_experiences, max_projects,
                                                   max_skills, fault) :
                    last' = [asked EXCEPT !.status = IF r.raised THEN 500 ELSE 200,
                                          !.lists = r.lists,
                                          !.fault = fault,
                                          !.encodes = r.encodes,
                                          !.searches = r.searches]
        /\ UNCHANGED <<db, nextKbId, existing, points, inst>>

\* the limits /rag/answer-with-rag retrieves with
AnswerMaxExperiences == 3

AnswerMaxProjects == 2

AnswerMaxSkills == 5

\* POST /rag/answer-with-rag ; generate_fails: the text generation raises
rag_answer(question, fault, generate_fails) ==
    LET pre == Precheck("rag_answer")
        asked == [pre EXCEPT !.question = question,
                             !.limits = [max_experiences |-> AnswerMaxExperiences,
                                         max_projects |-> AnswerMaxProjects,
                                         max_skills |-> AnswerMaxSkills]]
    IN  /\ IF pre.status # 200
           THEN /\ fault = "none"
                /\ ~generate_fails
                /\ last' = asked
           ELSE \E r \in retrieve_relevant_context(existing, points, question, HardcodedUser,
                                                   AnswerMaxExperiences, AnswerMaxProjects,
                                                   AnswerMaxSkills, fault) :
                    /\ r.raised => ~generate_fails
                    /\ last' = [asked EXCEPT
                                  !.status = IF r.raised \/ generate_fails THEN 500 ELSE 200,
                                  !.lists = r.lists,
                                  !.fault = IF generate_fails THEN "generate" ELSE fault,
                                  !.encodes = r.encodes,
                                  !.searches = r.searches,
                                  !.generates = IF r.raised THEN 0 ELSE 1,
                                  !.context = IF r.raised THEN ""
                                              ELSE build_context_string(r.lists),
                                  !.retrieved_context =
                                      IF r.raised \/ generate_fails THEN NoRetrievedContext
                                      ELSE retrieved_counts(r.lists),
                                  !.context_used =
                                      IF r.raised \/ generate_fails THEN ""
                                      ELSE context_used(build_context_string(r.lists))]
        /\ UNCHANGED <<db, nextKbId, existing, points, inst>>

\* DELETE /rag/index/{kb_id} : only the vector store is touched
rag_delete_index(kb_id, faults) ==
    LET r == delete_knowledge_base(existing, points, kb_id, faults)
    IN  /\ points' = r.points
        /\ last' = [Response("rag_delete_index", kb_id, IF r.raised THEN 500 ELSE 200)
                        EXCEPT !.attempted = r.attempted, !.failed = r.failed,
                               !.removed = PointCount - Cardinality(AllPoints(r.points))]
        /\ UNCHANGED <<db, nextKbId, existing, inst>>

\* a caller of RAGService.retrieve_relevant_context with an owner id of its choice
service_retrieve(question, kb_id, limits) ==
    /\ \E r \in retrieve_relevant_context(existing, points, question, kb_id,
                                          limits.max_experiences, limits.max_projects,
                                          limits.max_skills, "none") :
            last' = [Response("retrieve", kb_id, IF r.raised THEN 500 ELSE 200)
                        EXCEPT !.question = question,
                               !.limits = limits,
                               !.lists = r.lists,
                               !.encodes = r.encodes,
                               !.searches = r.searches]
    /\ UNCHANGED <<db, nextKbId, existing, points, inst>>

----------------------------------------------------------------------------
\* The endpoints as one process serves them.  The store round-trips of the
\* pipeline and of the cascade fail here when the collection is missing;
\* SpecStore and SpecIndex explore the failure of single round-trips.
Next ==
    \/ startup_event
    \/ \E data \in Snapshots : kb_create(data)
    \/ \E data \in Snapshots, auto_reindex \in BOOLEAN : kb_update(data, auto_reindex, {})
    \/ kb_delete
    \/ \E request_kb_id \in 0..MaxKbs : rag_index(request_kb_id, {})
    \/ \E question \in Questions, l \in LimitChoices, fault \in RetrieveFaults :
            rag_search(question, l.max_experiences, l.max_projects, l.max_skills, fault)
    \/ \E question \in Questions, fault \in RetrieveFaults, generate_fails \in BOOLEAN :
            rag_answer(question, fault, generate_fails)
    \/ \E kb_id \in KbIds : rag_delete_index(kb_id, {})

Spec == Init /\ [][Next]_vars

----------------------------------------------------------------------------
\* The RAG service on its own, driven by a caller that passes owner ids and
\* snapshots of its choice, with single delete round-trips failing.

\* the owner ids the caller passes: the hard-coded user and another one
Owners == {HardcodedUser, HardcodedUser + 1}

\* a call of RAGService.index_knowledge_base
service_index(kb_id, knowledge_base, faults) ==
    LET r == index_knowledge_base(kb_id, knowledge_base, existing, points, faults)
    IN  /\ Cardinality(AllPoints(r.points)) <= MaxPoints
        /\ points' = r.points
        /\ last' = [Response("index", kb_id, IF r.raised THEN 500 ELSE 200)
                        EXCEPT !.log = r.log, !.counts = Counts(knowledge_base),
                               !.record = knowledge_base]
        /\ UNCHANGED <<db, nextKbId, existing, inst>>

\* a call of RAGService.delete_knowledge_base
service_delete(kb_id, faults) ==
    LET r == delete_knowledge_base(existing, points, kb_id, faults)
    IN  /\ points' = r.points
        /\ last' = [Response("delete", kb_id, IF r.raised THEN 500 ELSE 200)
                        EXCEPT !.attempted = r.attempted, !.failed = r.failed,
                               !.removed = PointCount - Cardinality(AllPoints(r.points))]
        /\ UNCHANGED <<db, nextKbId, existing, inst>>

\* the collections are there, as startup leaves them
InitStore ==
    /\ db = [k \in KbIds |-> NoKb]
    /\ nextKbId = 1
    /\ existing = CollectionNames
    /\ points = [c \in CollectionNames |-> {}]
    /\ last = Response("none", 0, 0)
    /\ inst = <<>>

NextStore ==
    \/ \E kb_id \in Owners, data \in Snapshots : service_index(kb_id, data, {})
    \/ \E kb_id \in Owners, faults \in DeleteFaultSets : service_delete(kb_id, faults)
    \/ \E question \in Questions, kb_id \in Owners, limits \in LimitChoices :
            service_retrieve(question, kb_id, limits)

SpecStore == InitStore /\ [][NextStore]_vars

----------------------------------------------------------------------------
\* The indexing pipeline for one owner with any of its upsert round-trips
\* failing, next to the points of another owner.

NextIndex ==
    \/ \E data \in Snapshots :
            \E faults \in FaultSets(data) : service_index(HardcodedUser, data, faults)
    \/ \E kb_id \in Owners \ {HardcodedUser} : service_index(kb_id, DataScenario, {})
    \/ service_delete(HardcodedUser, {})

SpecIndex == InitStore /\ [][NextIndex]_vars

----------------------------------------------------------------------------
\* The retriever called with limits of the caller's choice for an owner that
\* has more points of a kind than a limit asks for.

\* the snapshots the owner is indexed with
RetrieveSnapshots == {DataScenario, DataManyQa}

\* the limits a caller passes, each chosen on its own
AllLimits ==
    [max_experiences : 1..MaxLimit, max_projects : 1..MaxLimit, max_skills : 1..MaxLimit]

NextRetrieve ==
    \/ \E data \in RetrieveSnapshots : service_index(HardcodedUser, data, {})
    \/ service_delete(HardcodedUser, {})
    \/ \E question \in Questions, limits \in AllLimits :
            service_retrieve(question, HardcodedUser, limits)

SpecRetrieve == InitStore /\ [][NextRetrieve]_vars

----------------------------------------------------------------------------
\* The context builder on retrieval results of the caller's choice, with
\* texts and skill lists on both sides of each budget.

\* how far a text or a skill list goes beyond its budget
ExtraLen == 40

\* a text of n characters
RECURSIVE Text(_)
Text(n) ==
    IF n = 0 THEN ""
    ELSE LET half == Text(n \div 2)
         IN  half \o half \o (IF n % 2 = 1 THEN "x" ELSE "")

\* lengths around a budget
LengthsAround(budget) == {0, 1, budget - 1, budget, budget + 1, budget + ExtraLen}

ExperienceHit(n) ==
    [score |-> 35,
     payload |-> [title |-> "Backend Engineer", company |-> "Acme", description |-> Text(n),
                  kb_id |-> HardcodedUser, experience_id |-> <<"exp", 0>>,
                  type |-> "work_experience"]]

\* an experience stored without a description
ExperienceHitBare ==
    [score |-> 10,
     payload |-> [title |-> "Intern", kb_id |-> HardcodedUser,
                  experience_id |-> <<"exp", 1>>, type |-> "work_experience"]]

ProjectHit(n) ==
    [score |-> 60,
     payload |-> [name |-> "Crawler", description |-> Text(n), kb_id |-> HardcodedUser,
                  project_id |-> <<"proj", 0>>, type |-> "project"]]

SkillHit(i) ==
    [score |-> 10,
     payload |-> [skill |-> "s" \o ToString(i), kb_id |-> HardcodedUser,
                  skill_id |-> <<"skill", i - 1>>, type |-> "skill"]]

QaHit(n) ==
    [score |-> 35,
     payload |-> [question |-> "Why this role?", answer |-> Text(n), kb_id |-> HardcodedUser,
                  qa_id |-> <<"qa", 0>>, type |-> "qa"]]

ExperienceLists ==
    {<<>>, <<ExperienceHitBare>>}
        \cup {<<ExperienceHit(n)>> : n \in LengthsAround(DescriptionBudget)}
        \cup {<<ExperienceHit(DescriptionBudget + ExtraLen), ExperienceHitBare,
                ExperienceHit(DescriptionBudget)>>}

ProjectLists ==
    {<<>>} \cup {<<ProjectHit(n)>> : n \in LengthsAround(DescriptionBudget)}
        \cup {<<ProjectHit(DescriptionBudget + 1), ProjectHit(DescriptionBudget + ExtraLen)>>}

SkillLists == {[i \in 1..k |-> SkillHit(i)] : k \in LengthsAround(SkillBudget)}

QaLists ==
    {<<>>} \cup {<<QaHit(n)>> : n \in LengthsAround(AnswerBudget)}
        \cup {<<QaHit(AnswerBudget + ExtraLen), QaHit(AnswerBudget + 1)>>}

RetrievalResults ==
    [experiences : ExperienceLists, projects : ProjectLists,
     skills : SkillLists, qa_pairs : QaLists]

\* a caller holds a retrieval result
InitContext ==
    /\ db = [k \in KbIds |-> NoKb]
    /\ nextKbId = 1
    /\ existing = CollectionNames
    /\ points = [c \in CollectionNames |-> {}]
    /\ last \in {[Response("retrieved", HardcodedUser, 200) EXCEPT !.lists = retrieved] :
                    retrieved \in RetrievalResults}
    /\ inst = <<>>

\* the caller passes it to RAGService.build_context_string and makes the
\* fields of the answer response of it
service_build_context ==
    LET retrieved == last.lists
        context_str == build_context_string(retrieved)
    IN  /\ last.op = "retrieved"
        /\ last' = [Response("build_context", HardcodedUser, 200)
                        EXCEPT !.lists = retrieved,
                               !.context = context_str,
                               !.retrieved_context = retrieved_counts(retrieved),
                               !.context_used = context_used(context_str)]
        /\ UNCHANGED <<db, nextKbId, existing, points, inst>>

NextContext == service_build_context

SpecContext == InitContext /\ [][NextContext]_vars

----------------------------------------------------------------------------
\* The composite encoders on records of the caller's choice, with each field
\* absent, empty or filled.

\* a record without fields
NoFields == <<>>

\* the ways a string field k is given: absent, empty, or with the value v
StrField(k, v) == {NoFields, k :> "", k :> v}

\* the ways a list field k is given
ListField(k, v) == {NoFields, k :> <<>>, k :> <<"">>, k :> <<v>>}

ExperienceRecords ==
    {t @@ c @@ d @@ l :
        t \in StrField("title", "Backend Engineer"), c \in StrField("company", "Acme"),
        d \in StrField("description", "Built APIs"), l \in ListField("technologies", "Python")}

ProjectRecords ==
    {n @@ d @@ l :
        n \in StrField("name", "Crawler"), d \in StrField("description", "Scrapes postings"),
        l \in ListField("technologies", "Python")}

\* a skill is a string or a record
SkillRecords ==
    {Str(""), Str("Python")}
        \cup {s @@ n @@ p :
                s \in StrField("skill", "Go"), n \in StrField("name", "Rust"),
                p \in StrField("proficiency", "expert")}

\* a Q&A pair is a question with its answer
QaRecords == {<<q, a>> : q \in {"", "Why this role?"}, a \in {"", "I like APIs"}}

\* a caller holds a record of one of the four kinds
InitEncode ==
    /\ db = [k \in KbIds |-> NoKb]
    /\ nextKbId = 1
    /\ existing = CollectionNames
    /\ points = [c \in CollectionNames |-> {}]
    /\ last \in {[Response("record", 0, 0) EXCEPT !.detail = "work_experience", !.record = r] :
                    r \in ExperienceRecords}
                \cup {[Response("record", 0, 0) EXCEPT !.detail = "project", !.record = r] :
                        r \in ProjectRecords}
                \cup {[Response("record", 0, 0) EXCEPT !.detail = "skill", !.record = r] :
                        r \in SkillRecords}
                \cup {[Response("record", 0, 0) EXCEPT !.detail = "qa", !.record = r] :
                        r \in QaRecords}
    /\ inst = <<>>

\* what a call of a composite encoder leaves behind: the text it embedded
Encoded(kind, record, enc) ==
    [Response("encode", 0, IF enc.raised THEN 500 ELSE 200)
        EXCEPT !.detail = kind, !.record = record, !.text = enc.vector]

call_encode_work_experience ==
    /\ last.op = "record" /\ last.detail = "work_experience"
    /\ last' = Encoded(last.detail, last.record, encode_work_experience(last.record))
    /\ UNCHANGED <<db, nextKbId, existing, points, inst>>

call_encode_project ==
    /\ last.op = "record" /\ last.detail = "project"
    /\ last' = Encoded(last.detail, last.record, encode_project(last.record))
    /\ UNCHANGED <<db, nextKbId, existing, points, inst>>

call_encode_skill ==
    /\ last.op = "record" /\ last.detail = "skill"
    /\ last' = Encoded(last.detail, last.record, encode_skill(last.record))
    /\ UNCHANGED <<db, nextKbId, existing, points, inst>>

call_encode_qa_pair ==
    /\ last.op = "record" /\ last.detail = "qa"
    /\ last' = Encoded(last.detail, last.record,
                       encode_qa_pair(last.record[1], last.record[2]))
    /\ UNCHANGED <<db, nextKbId, existing, points, inst>>

NextEncode ==
    \/ call_encode_work_experience
    \/ call_encode_project
    \/ call_encode_skill
    \/ call_encode_qa_pair

SpecEncode == InitEncode /\ [][NextEncode]_vars

----------------------------------------------------------------------------
\* The answer endpoint over a knowledge base whose context goes beyond the
\* excerpt, and over one whose context does not.

ExpLong ==
    [title |-> "Backend Engineer", company |-> "Acme",
     description |-> Text(DescriptionBudget + ExtraLen)]

ProjLong == [name |-> "Crawler", description |-> Text(DescriptionBudget)]

DataLong ==
    [work_experience |-> <<ExpLong, ExpLong>>, projects |-> <<ProjLong>>,
     skills |-> <<SkillPy>>, qa_pairs |-> <<Qa1>>]

AnswerSnapshots == {NoData, DataScenario, DataLong}

NextAnswer ==
    \/ \E data \in AnswerSnapshots : kb_create(data)
    \/ \E data \in AnswerSnapshots, auto_reindex \in BOOLEAN : kb_update(data, auto_reindex, {})
    \/ rag_index(0, {})
    \/ \E question \in Questions, generate_fails \in BOOLEAN :
            rag_answer(question, "none", generate_fails)
    \/ rag_delete_index(HardcodedUser, {})

SpecAnswer == InitStore /\ [][NextAnswer]_vars

----------------------------------------------------------------------------
\* Startup against a store in which collections come and go.

NextStartup ==
    \/ startup_event
    \/ \E c \in CollectionNames : delete_collection(c)
    \/ \E data \in Snapshots : service_index(HardcodedUser, data, {})

SpecStartup == InitStore /\ [][NextStartup]_vars

----------------------------------------------------------------------------
\* Several process instances start against the same store; each runs the
\* loop of create_collections one round-trip at a time.

\* process instances that start together
MaxInstances == 2

Instances == 1..MaxInstances

\* instance p asks the store whether its current collection exists
ensure_check(p) ==
    /\ inst[p].pc = "check"
    /\ LET collection_name == Collections[inst[p].i]
       IN  IF get_collection_raises(existing, collection_name)
           THEN inst' = [inst EXCEPT ![p].pc = "create"]
           ELSE inst' = [inst EXCEPT ![p] =
                            IF inst[p].i = Len(Collections)
                            THEN [i |-> inst[p].i, pc |-> "done"]
                            ELSE [i |-> inst[p].i + 1, pc |-> "check"]]
    /\ UNCHANGED <<db, nextKbId, existing, points, last>>

\* instance p, having found the collection missing, creates it; a refusal of the
\* store leaves create_collections as an exception, which startup_event logs
ensure_create(p) ==
    /\ inst[p].pc = "create"
    /\ LET c == create_collection(existing, Collections[inst[p].i])
       IN  /\ existing' = c.existing
           /\ inst' = [inst EXCEPT ![p] =
                          IF c.raised THEN [i |-> inst[p].i, pc |-> "failed"]
                          ELSE IF inst[p].i = Len(Collections)
                          THEN [i |-> inst[p].i, pc |-> "done"]
                          ELSE [i |-> inst[p].i + 1, pc |-> "check"]]
    /\ UNCHANGED <<db, nextKbId, points, last>>

\* the store holds any of the collections when the instances start
InitEnsure ==
    /\ db = [k \in KbIds |-> NoKb]
    /\ nextKbId = 1
    /\ existing \in SUBSET CollectionNames
    /\ points = [c \in CollectionNames |-> {}]
    /\ last = Response("none", 0, 0)
    /\ inst = [p \in Instances |-> [i |-> 1, pc |-> "check"]]

NextEnsure == \E p \in Instances : ensure_check(p) \/ ensure_create(p)

SpecEnsure == InitEnsure /\ [][NextEnsure]_vars

----------------------------------------------------------------------------
\* Properties.

\* the points of owner kb_id in collection c
OwnerPoints(pts, c, kb_id) == {p \in pts[c] : p.payload.kb_id = kb_id}

\* the points of owner kb_id in all collections
AllOwnerPoints(pts, kb_id) == UNION {OwnerPoints(pts, c, kb_id) : c \in CollectionNames}

\* the owners named by the payloads of a result list
OwnersOf(list) == {list[i].payload.kb_id : i \in 1..Len(list)}

\* the owners named anywhere in the four lists of the last response
ReturnedOwners ==
    OwnersOf(last.lists.experiences) \cup OwnersOf(last.lists.projects)
        \cup OwnersOf(last.lists.skills) \cup OwnersOf(last.lists.qa_pairs)

\* C1: every payload a retrieval for owner o returns, in each of the four
\* lists, carries owner o, whatever other owners have stored in the same
\* collections.
C1_PartitionIsolation ==
    last.op \in {"retrieve", "rag_search", "rag_answer"} => ReturnedOwners \subseteq {last.kb_id}

\* a retrieval returned experiences and skills of its owner while another
\* owner had points in both collections
C1_Witness ==
    /\ last.op = "retrieve"
    /\ last.lists.experiences # <<>>
    /\ last.lists.skills # <<>>
    /\ \E p \in points[COLLECTION_EXPERIENCES] : p.payload.kb_id # last.kb_id
    /\ \E p \in points[COLLECTION_SKILLS] : p.payload.kb_id # last.kb_id

\* C2: a search or an answer request for an owner whose row exists and whose
\* indexed flag is not set is rejected with the client error "not indexed",
\* and no embedder, vector-search or text-generation call is made for it.
C2_UnindexedRejected ==
    (/\ last.op \in {"rag_search", "rag_answer"}
     /\ db[HardcodedUser].present
     /\ db[HardcodedUser].embedding_id = None)
        => /\ last.status = 400
           /\ last.detail = "not indexed"
           /\ last.encodes = 0
           /\ last.searches = 0
           /\ last.generates = 0

\* an answer request was rejected for a row that is there, with data, and not
\* indexed, while the collections exist
C2_Witness ==
    /\ last.op = "rag_answer"
    /\ last.status = 400
    /\ db[HardcodedUser].present
    /\ db[HardcodedUser].embedding_id = None
    /\ ItemCount(db[HardcodedUser].data) > 0
    /\ existing = CollectionNames

\* C3: once the vectors of an indexed owner have been deleted, the owner is
\* back in the not-indexed state: the search or answer request that follows
\* the delete is rejected as not indexed.
C3_DeleteReturnsToUnindexed ==
    [][(/\ last.op = "rag_delete_index"
        /\ last.status = 200
        /\ last.kb_id = HardcodedUser
        /\ db[HardcodedUser].present
        /\ db[HardcodedUser].embedding_id # None
        /\ last'.op \in {"rag_search", "rag_answer"})
            => /\ last'.status = 400
               /\ last'.detail = "not indexed"]_vars

C5_CascadeDelete ==
    (last.op \in {"delete", "rag_delete_index"} /\ last.failed = {})
        => AllOwnerPoints(points, last.kb_id) = {}

\* a delete in which nothing failed removed more points than one index call
\* of any of the snapshots stores, and left the points of the other owner
C5_Witness ==
    /\ last.op = "delete"
    /\ last.failed = {}
    /\ \A data \in Snapshots : last.removed >= ItemCount(data)
    /\ AllPoints(points) # {}

\* C6: a delete in which the round-trip for some collection fails still tries
\* every collection once, in order, empties every collection that did not fail
\* of the owner's points, and returns normally.
C6_BestEffortDelete ==
    last.op \in {"delete", "rag_delete_index"}
        => /\ last.status = 200
           /\ last.attempted = Collections
           /\ \A c \in CollectionNames \ last.failed :
                OwnerPoints(points, c, last.kb_id) = {}

\* a delete failed for one collection, which still holds the owner's points,
\* and removed the owner's points from another
C6_Witness ==
    /\ last.op = "delete"
    /\ last.failed # {}
    /\ last.removed > 0
    /\ \E c \in last.failed : OwnerPoints(points, c, last.kb_id) # {}

\* the local id the pipeline gave a point, by the kind of the point
PointLocalId(p) ==
    CASE p.payload.type = "work_experience" -> p.payload.experience_id
      [] p.payload.type = "project" -> p.payload.project_id
      [] p.payload.type = "skill" -> p.payload.skill_id
      [] p.payload.type = "qa" -> p.payload.qa_id

\* the local ids a snapshot with these lengths has, in pipeline order
ExpectedLocalIds(counts) ==
    [i \in 1..counts.experiences |-> <<"exp", i - 1>>]
    \o [i \in 1..counts.projects |-> <<"proj", i - 1>>]
    \o [i \in 1..counts.skills |-> <<"skill", i - 1>>]
    \o [i \in 1..counts.qa_pairs |-> <<"qa", i - 1>>]

\* the local ids of the log entries of the response r that were stored
StoredIds(r) == {r.log[i].local_id : i \in {j \in 1..Len(r.log) : r.log[j].stored}}

\* C7: an index call runs the loop body once for every item of every kind, in
\* order, whichever items fail; it returns normally; and it leaves exactly one
\* new point of the owner for each item that did not fail and none for one
\* that did.
C7_SkipAndContinue ==
    [][last'.op = "index"
        => LET new == AllPoints(points') \ AllPoints(points)
           IN  /\ last'.status = 200
               /\ [i \in 1..Len(last'.log) |-> last'.log[i].local_id]
                    = ExpectedLocalIds(last'.counts)
               /\ \A p \in new : /\ p.payload.kb_id = last'.kb_id
                                 /\ PointLocalId(p) \in StoredIds(last')
               /\ \A id \in StoredIds(last') :
                    Cardinality({p \in new : PointLocalId(p) = id}) = 1]_vars

\* an index call in which more than one item failed and items after a failed
\* one, of the same kind and of a later kind, were stored
C7_Witness ==
    /\ last.op = "index"
    /\ last.status = 200
    /\ \E i, j, k \in 1..Len(last.log) :
          /\ i < j /\ j < k
          /\ ~last.log[i].stored
          /\ last.log[j].stored /\ last.log[j].local_id[1] = last.log[i].local_id[1]
          /\ last.log[k].stored /\ last.log[k].local_id[1] # last.log[i].local_id[1]
    /\ Len(last.log) - Cardinality(StoredIds(last)) > 1
    /\ Cardinality(AllOwnerPoints(points, last.kb_id)) >= Cardinality(StoredIds(last))

\* C8: an index call removes and changes no point that was there, gives its
\* points ids the store did not hold, and, when no item fails, raises the
\* number of the owner's points by the number of items of the snapshot: after
\* k such calls with n items the owner has k * n points.
C8_UpsertIsAppend ==
    [][last'.op = "index"
        => LET new == AllPoints(points') \ AllPoints(points)
           IN  /\ \A c \in CollectionNames : points[c] \subseteq points'[c]
               /\ \A p \in new : p.id \notin UsedIds(points)
               /\ Cardinality(AllOwnerPoints(points', last'.kb_id))
                    = Cardinality(AllOwnerPoints(points, last'.kb_id))
                        + Cardinality(StoredIds(last'))]_vars

\* the owner has three times the points of its two-item snapshot after an index
\* call in which nothing failed, each local id on three points
C8_Witness ==
    /\ last.op = "index"
    /\ Len(last.log) = 2
    /\ Cardinality(StoredIds(last)) = 2
    /\ Cardinality(AllOwnerPoints(points, last.kb_id)) = 3 * Len(last.log)
    /\ \A id \in StoredIds(last) :
          Cardinality({p \in AllOwnerPoints(points, last.kb_id) : PointLocalId(p) = id}) = 3

\* C9: a startup that runs on its own leaves all four collections in place,
\* creates only those that were absent, leaves the stored points as they were,
\* and does not fail, whichever of the collections existed before it.
C9_EnsureIdempotent ==
    [][last'.op = "startup"
        => /\ last'.status = 200
           /\ existing' = CollectionNames
           /\ last'.created = CollectionNames \ existing
           /\ points' = points]_vars

\* a startup found some of the collections, created the others, and the store
\* holds points
C9_Witness ==
    /\ last.op = "startup"
    /\ last.created # {}
    /\ last.created # CollectionNames
    /\ existing = CollectionNames
    /\ AllPoints(points) # {}

\* C10: when several instances start together against the same store, no
\* instance's create_collections fails, and once all of them are through all
\* four collections exist.
C10_ConcurrentEnsure ==
    /\ \A p \in DOMAIN inst : inst[p].pc # "failed"
    /\ (\A p \in DOMAIN inst : inst[p].pc \in {"done", "failed"})
            => existing = CollectionNames

\* the number of points of owner kb_id in collection c
OwnerCount(c, kb_id) == Cardinality(OwnerPoints(points, c, kb_id))

\* C11: a retrieval returns at most max_experiences experiences, max_projects
\* projects and max_skills skills, and at most 2 Q&A pairs whatever the three
\* limits of the caller are.
C11_ResultSizeBounds ==
    last.op \in {"retrieve", "rag_search"}
        => /\ Len(last.lists.experiences) <= last.limits.max_experiences
           /\ Len(last.lists.projects) <= last.limits.max_projects
           /\ Len(last.lists.skills) <= last.limits.max_skills
           /\ Len(last.lists.qa_pairs) <= 2

\* a retrieval with a skill limit above 2 returned 2 of the owner's 3 Q&A
\* pairs and 1 of its 2 projects
C11_Witness ==
    /\ last.op = "retrieve"
    /\ last.status = 200
    /\ last.limits.max_skills > 2
    /\ last.limits.max_experiences > 2
    /\ OwnerCount(COLLECTION_QA, last.kb_id) > 2
    /\ Len(last.lists.qa_pairs) = 2
    /\ last.limits.max_projects = 1
    /\ OwnerCount(COLLECTION_PROJECTS, last.kb_id) = 2
    /\ Len(last.lists.projects) = 1

\* C12: when the query embedding or any one of the four searches of a search
\* or answer request fails, the request fails as a whole: it answers with a
\* server error and with none of the four lists, also when searches issued
\* before the failing one had succeeded.
C12_AllOrNothing ==
    (/\ last.op \in {"rag_search", "rag_answer"}
     /\ db[HardcodedUser].present
     /\ db[HardcodedUser].embedding_id # None
     /\ (last.fault \in RetrieveFaults \ {"none"} \/ existing # CollectionNames))
        => /\ last.status = 500
           /\ last.lists = NoLists
           /\ last.generates = 0

\* a search failed on its last round-trip, after the experience search over
\* the owner's stored experiences had gone through
C12_Witness ==
    /\ last.op = "rag_search"
    /\ last.fault = COLLECTION_QA
    /\ last.status = 500
    /\ last.searches = 4
    /\ last.lists = NoLists
    /\ existing = CollectionNames
    /\ OwnerCount(COLLECTION_EXPERIENCES, HardcodedUser) > 0

\* the character of s at position i
At(s, i) == SubSeq(s, i, i)

\* the positions of the newlines of s
Newlines(s) == {i \in 1..Len(s) : At(s, i) = "\n"}

\* the positions at which the lines of s start
LineStarts(s) == {1} \cup {i + 1 : i \in Newlines(s)}

\* the line of s that starts at position a
LineAt(s, a) ==
    LET ends == {i \in Newlines(s) : i >= a}
        end == IF ends = {} THEN Len(s)
               ELSE (CHOOSE i \in ends : \A j \in ends : i <= j) - 1
    IN  SubSeq(s, a, end)

StartsWith(t, prefix) == Len(t) >= Len(prefix) /\ SubSeq(t, 1, Len(prefix)) = prefix

\* the number of places at which sep occurs in t
CountOf(t, sep) ==
    Cardinality({i \in 1..(Len(t) - Len(sep) + 1) : SubSeq(t, i, i + Len(sep) - 1) = sep})

\* the lines of the context of the last response
ContextLines == {LineAt(last.context, a) : a \in LineStarts(last.context)}

\* C13: in the context built of a retrieval result, the line of a description
\* holds at most 200 characters of it, the line of an answer at most 150
\* characters of it, and the skills line at most 10 names, the first of the
\* retrieved ones, however long the texts and the skill list are.
C13_ContextBudget ==
    last.op = "build_context"
        => \A line \in ContextLines :
              /\ StartsWith(line, "  ") => Len(line) <= 2 + 200
              /\ StartsWith(line, "A: ") => Len(line) <= 3 + 150
              /\ StartsWith(line, "Relevant Skills: ")
                    => /\ CountOf(line, ", ") + 1 <= 10
                       /\ StartsWith(line, "Relevant Skills: "
                                              \o last.lists.skills[1].payload.skill)
                       /\ \A i \in 11..Len(last.lists.skills) :
                            CountOf(line, last.lists.skills[i].payload.skill) = 0

\* a context built of a description, an answer and a skill list beyond their
\* budgets holds lines that fill the budgets exactly
C13_Witness ==
    /\ last.op = "build_context"
    /\ \E i \in 1..Len(last.lists.experiences) :
          /\ "description" \in DOMAIN last.lists.experiences[i].payload
          /\ Len(last.lists.experiences[i].payload.description) > 200
    /\ \E i \in 1..Len(last.lists.qa_pairs) : Len(last.lists.qa_pairs[i].payload.answer) > 150
    /\ Len(last.lists.skills) > 10
    /\ \E line \in ContextLines : StartsWith(line, "  ") /\ Len(line) = 202
    /\ \E line \in ContextLines : StartsWith(line, "A: ") /\ Len(line) = 153
    /\ \E line \in ContextLines :
          StartsWith(line, "Relevant Skills: ") /\ CountOf(line, ", ") = 9

\* the positions at which a line of the context starts with header
HeaderStarts(header) ==
    {a \in 1..(Len(last.context) - Len(header) + 1) :
        /\ a = 1 \/ At(last.context, a - 1) = "\n"
        /\ SubSeq(last.context, a, a + Len(header) - 1) = header}

\* the headers in the order of the layout, each with its retrieved list
Sections ==
    <<[header |-> "Relevant Work Experience:", list |-> last.lists.experiences],
      [header |-> "Relevant Projects:", list |-> last.lists.projects],
      [header |-> "Relevant Skills: ", list |-> last.lists.skills],
      [header |-> "Similar Questions You've Answered:", list |-> last.lists.qa_pairs]>>

\* C14: in the context built of a retrieval result a header stands on a line
\* if and only if its list is not empty, the headers stand in the order Work
\* Experience, Projects, Skills, Similar Questions, and the header of every
\* section that follows another one has a blank line in front of it.
C14_ContextLayout ==
    last.op = "build_context"
        => /\ \A k \in 1..4 :
                Cardinality(HeaderStarts(Sections[k].header))
                    = (IF Sections[k].list # <<>> THEN 1 ELSE 0)
           /\ \A k, l \in 1..4 :
                k < l => \A a \in HeaderStarts(Sections[k].header),
                            b \in HeaderStarts(Sections[l].header) :
                            /\ a < b
                            /\ b >= 3
                            /\ At(last.context, b - 1) = "\n"
                            /\ At(last.context, b - 2) = "\n"

\* a context with the experiences, the skills and the Q&A section and without
\* the projects section
C14_Witness ==
    /\ last.op = "build_context"
    /\ last.lists.experiences # <<>>
    /\ last.lists.projects = <<>>
    /\ last.lists.skills # <<>>
    /\ last.lists.qa_pairs # <<>>
    /\ HeaderStarts("Relevant Work Experience:") = {1}
    /\ HeaderStarts("Relevant Projects:") = {}
    /\ HeaderStarts("Relevant Skills: ") # {}
    /\ HeaderStarts("Similar Questions You've Answered:") # {}

\* the value a segment shows after its label: its values joined by ', '
SegmentValue(part) == Join(part.value, ", ")

\* C15: the text a composite encoder builds of a record holds a labelled
\* segment only for a field that is there and not empty: no segment of it has
\* an empty value after its label.
C15_FieldOmission ==
    (last.op = "encode" /\ last.status = 200)
        => \A i \in 1..Len(last.text) : SegmentValue(last.text[i]) # ""

\* C16: an index request for a row that is there answers with success and
\* leaves the row flagged as indexed, with the pipeline having run over every
\* item of the row, whether none, some or all of the items failed.
C16_IndexMarksIndexed ==
    [][(last'.op = "rag_index" /\ db[last'.kb_id].present)
        => /\ last'.status = 200
           /\ db'[last'.kb_id].embedding_id = IndexedToken(last'.kb_id)
           /\ last'.counts = Counts(db[last'.kb_id].data)
           /\ [i \in 1..Len(last'.log) |-> last'.log[i].local_id]
                = ExpectedLocalIds(last'.counts)]_vars

\* an index request in which every item failed answered with success and
\* flagged a row that had not been indexed before
C16_Witness ==
    /\ last.op = "rag_index"
    /\ last.status = 200
    /\ Len(last.log) > 1
    /\ StoredIds(last) = {}
    /\ AllOwnerPoints(points, last.kb_id) = {}
    /\ db[last.kb_id].embedding_id = IndexedToken(last.kb_id)

\* C17: a successful answer carries the lengths of the four retrieved lists
\* as its counts, and as its excerpt the whole context when that has at most
\* 500 characters and else its first 500 characters followed by "...": the
\* excerpt never has more than 503 characters.
C17_AnswerObservability ==
    (last.op = "rag_answer" /\ last.status = 200)
        => /\ last.retrieved_context.num_experiences = Len(last.lists.experiences)
           /\ last.retrieved_context.num_projects = Len(last.lists.projects)
           /\ last.retrieved_context.num_skills = Len(last.lists.skills)
           /\ last.retrieved_context.num_qa_pairs = Len(last.lists.qa_pairs)
           /\ Len(last.context) <= 500 => last.context_used = last.context
           /\ Len(last.context) > 500
                => last.context_used = SubSeq(last.context, 1, 500) \o "..."
           /\ Len(last.context_used) <= 503

\* an answer whose context went beyond 500 characters carries an excerpt of
\* 503 and counts that are not all zero
C17_Witness ==
    /\ last.op = "rag_answer"
    /\ last.status = 200
    /\ Len(last.context) > 500
    /\ Len(last.context_used) = 503
    /\ last.retrieved_context.num_experiences = 2
    /\ last.retrieved_context.num_qa_pairs = 1

----------------------------------------------------------------------------
\* The event loop of one process serving /rag/index and /rag/search requests.
\* The handlers are coroutines: one runs on the loop's thread from one await
\* to the next.  The calls into the RAG service are plain calls, with no
\* await in them: their round-trips to the embedder and to the store are
\* made on the loop's thread.

\* requests in flight in the process
MaxRequests == 2

Requests == 1..MaxRequests

\* the round-trips of one call into the RAG service: an encode and an upsert
\* for each item, or the encode of the question and the four searches
RoundTrips(op) ==
    IF op = "index" THEN 2 * ItemCount(DataScenario) ELSE 1 + Len(Collections)

\* the requests whose handler is inside a call into the RAG service
OnLoopThread == {r \in DOMAIN inst : inst[r].pc = "rag_service"}

\* the loop picks up a request: the handler runs to `await db.execute(...)`
handler_start(r) ==
    /\ inst[r].pc = "queued"
    /\ OnLoopThread = {}
    /\ inst' = [inst EXCEPT ![r].pc = "await_db_execute"]
    /\ UNCHANGED <<db, nextKbId, existing, points, last>>

\* the row is there: the handler goes on into the call of the RAG service
handler_call_rag_service(r) ==
    /\ inst[r].pc = "await_db_execute"
    /\ OnLoopThread = {}
    /\ inst' = [inst EXCEPT ![r].pc = "rag_service", ![r].left = RoundTrips(inst[r].op)]
    /\ UNCHANGED <<db, nextKbId, existing, points, last>>

\* one round-trip of the call, made on the loop's thread
rag_service_round_trip(r) ==
    /\ inst[r].pc = "rag_service"
    /\ inst[r].left > 0
    /\ inst' = [inst EXCEPT ![r].left = @ - 1]
    /\ UNCHANGED <<db, nextKbId, existing, points, last>>

\* the call returns: /rag/index goes on to `await db.commit()`, /rag/search
\* returns its response
rag_service_return(r) ==
    /\ inst[r].pc = "rag_service"
    /\ inst[r].left = 0
    /\ inst' = [inst EXCEPT ![r].pc = IF inst[r].op = "index" THEN "await_db_commit"
                                      ELSE "done"]
    /\ UNCHANGED <<db, nextKbId, existing, points, last>>

\* the commit is through: /rag/index returns its response
handler_finish(r) ==
    /\ inst[r].pc = "await_db_commit"
    /\ OnLoopThread = {}
    /\ inst' = [inst EXCEPT ![r].pc = "done"]
    /\ UNCHANGED <<db, nextKbId, existing, points, last>>

\* a step of the handler of request r
HandlerStep(r) ==
    \/ handler_start(r)
    \/ handler_call_rag_service(r)
    \/ rag_service_round_trip(r)
    \/ rag_service_return(r)
    \/ handler_finish(r)

\* requests of either kind, for either owner, have been submitted
InitLoop ==
    /\ db = [k \in KbIds |-> NoKb]
    /\ nextKbId = 1
    /\ existing = CollectionNames
    /\ points = [c \in CollectionNames |-> {}]
    /\ last = Response("none", 0, 0)
    /\ inst \in [Requests -> [op : {"index", "retrieve"}, kb_id : Owners,
                              pc : {"queued"}, left : {0}]]

NextLoop ==
    \E r \in Requests :
        \/ handler_start(r)
        \/ handler_call_rag_service(r)
        \/ rag_service_round_trip(r)
        \/ rag_service_return(r)
        \/ handler_finish(r)

SpecLoop == InitLoop /\ [][NextLoop]_vars

\* C18: while the handler of a request is inside its index or retrieve call,
\* round-trips included, a request for another owner that has not finished
\* can take its next step: it does not wait for the call to return.
C18_NonBlocking ==
    \A r, q \in DOMAIN inst :
        (/\ inst[r].pc = "rag_service"
         /\ inst[r].left > 0
         /\ inst[q].kb_id # inst[r].kb_id
         /\ inst[q].pc # "done")
            => ENABLED HandlerStep(q)

\* C19: every request of the profile-management layer that creates or
\* updates the knowledge base (its row is written) runs the indexing pipeline
\* for that knowledge base with the new contents: one pipeline step for each
\* item of the stored lists.
C19_IndexOnEveryChange ==
    [][(last'.op \in {"kb_create", "kb_update"} /\ last'.kb_id # 0)
        => /\ Len(last'.log) = ItemCount(db'[last'.kb_id].data)
           /\ last'.counts = Counts(db'[last'.kb_id].data)]_vars

\* C20: in every step, the points of owner o (ids, vectors and payloads) gain
\* a member only when the step is an index call for o and lose a member only
\* when it is a delete for o; a retrieval, and an index or a delete for
\* another owner, leave the set of o's points as it was.
C20_PointLifecycle ==
    [][\A o \in Owners :
        LET before == AllOwnerPoints(points, o)
            after == AllOwnerPoints(points', o)
        IN  /\ (after \ before # {}) => (last'.op = "index" /\ last'.kb_id = o)
            /\ (before \ after # {}) => (last'.op = "delete" /\ last'.kb_id = o)
            /\ (last'.op = "retrieve" \/ last'.kb_id # o) => after = before]_vars

\* a delete took points of its owner away while the other owner holds points,
\* and a collection that failed keeps points of the deleted owner
C20_Witness ==
    /\ last.op = "delete"
    /\ last.removed > 0
    /\ AllOwnerPoints(points, last.kb_id) # {}
    /\ \E o \in Owners \ {last.kb_id} : AllOwnerPoints(points, o) # {}

----------------------------------------------------------------------------
\* Index calls that run side by side against one store (several processes or
\* threads with a RAG service each).  A call goes through the items of its
\* snapshot in pipeline order, one encode and one upsert round-trip per item;
\* between two items of one call the other calls may run.

\* index calls in flight at once
MaxCallers == 2

Callers == 1..MaxCallers

\* a later version of the scenario profile: the same experience, a project
\* in place of the skill
DataRevised ==
    [work_experience |-> <<Exp1>>, projects |-> <<ProjA>>, skills |-> <<>>, qa_pairs |-> <<>>]

\* snapshots none of whose items fails
CleanSnapshots == {DataScenario, DataRevised}

\* the loop body of index_knowledge_base for the item at position pos of the
\* pipeline order
index_item(kb_id, knowledge_base, pos, ex, pts) ==
    LET local_id == LocalIds(knowledge_base)[pos + 1]
        idx == local_id[2]
        UpTo(items) == SubSeq(items, 1, idx + 1)
    IN  CASE local_id[1] = "exp" ->
                index_work_experiences(UpTo(knowledge_base.work_experience), idx, kb_id, ex, pts, {})
          [] local_id[1] = "proj" ->
                index_projects(UpTo(knowledge_base.projects), idx, kb_id, ex, pts, {})
          [] local_id[1] = "skill" ->
                index_skills(UpTo(knowledge_base.skills), idx, kb_id, ex, pts, {})
          [] local_id[1] = "qa" ->
                index_qa_pairs(UpTo(knowledge_base.qa_pairs), idx, kb_id, ex, pts, {})

Idle == [pc |-> "idle", kb_id |-> 0, knowledge_base |-> NoData, pos |-> 0, log |-> <<>>]

\* caller c enters index_knowledge_base(kb_id, knowledge_base)
call_index(c, kb_id, knowledge_base) ==
    /\ inst[c].pc = "idle"
    /\ inst' = [inst EXCEPT ![c] = [pc |-> "indexing", kb_id |-> kb_id,
                                    knowledge_base |-> knowledge_base,
                                    pos |-> 0, log |-> <<>>]]
    /\ UNCHANGED <<db, nextKbId, existing, points, last>>

\* the call of caller c handles its next item
index_step(c) ==
    /\ inst[c].pc = "indexing"
    /\ inst[c].pos < ItemCount(inst[c].knowledge_base)
    /\ LET r == index_item(inst[c].kb_id, inst[c].knowledge_base, inst[c].pos,
                           existing, points)
       IN  /\ points' = r.points
           /\ inst' = [inst EXCEPT ![c].pos = @ + 1, ![c].log = @ \o r.log]
    /\ UNCHANGED <<db, nextKbId, existing, last>>

\* the call of caller c returns
index_return(c) ==
    /\ inst[c].pc = "indexing"
    /\ inst[c].pos = ItemCount(inst[c].knowledge_base)
    /\ inst' = [inst EXCEPT ![c].pc = "returned"]
    /\ last' = [Response("index", inst[c].kb_id, 200)
                    EXCEPT !.log = inst[c].log,
                           !.counts = Counts(inst[c].knowledge_base)]
    /\ UNCHANGED <<db, nextKbId, existing, points>>

InitCallers ==
    /\ db = [k \in KbIds |-> NoKb]
    /\ nextKbId = 1
    /\ existing = CollectionNames
    /\ points = [c \in CollectionNames |-> {}]
    /\ last = Response("none", 0, 0)
    /\ inst = [c \in Callers |-> Idle]

NextCallers ==
    \/ \E c \in Callers, kb_id \in Owners, data \in CleanSnapshots : call_index(c, kb_id, data)
    \/ \E c \in Callers : index_step(c)
    \/ \E c \in Callers : index_return(c)

SpecCallers == InitCallers /\ [][NextCallers]_vars

\* the points of owner kb_id that carry the item at position pos of the snapshot
ItemPoints(kb_id, knowledge_base, pos) ==
    LET alone == index_item(kb_id, knowledge_base, pos, CollectionNames,
                            [c \in CollectionNames |-> {}]).points
    IN  {p \in AllOwnerPoints(points, kb_id) :
            \E q \in AllPoints(alone) : q.vector = p.vector /\ q.payload = p.payload}

\* the items the calls for owner kb_id among the callers S have handled
RECURSIVE Handled(_, _)
Handled(S, kb_id) ==
    IF S = {}
    THEN 0
    ELSE LET c == CHOOSE x \in S : TRUE
         IN  (IF inst[c].kb_id = kb_id THEN inst[c].pos ELSE 0) + Handled(S \ {c}, kb_id)

\* C21: index calls for one owner run side by side, no item failing: under
\* every interleaving of their upserts the owner holds one point for each
\* item any of the calls has handled, so after both calls one point for each
\* item of both snapshots; points of the two calls with equal local ids stand
\* side by side, none takes the place of another.
C21_ConcurrentIndexKeepsAll ==
    \A kb_id \in Owners :
        /\ Cardinality(AllOwnerPoints(points, kb_id)) = Handled(Callers, kb_id)
        /\ \A c \in Callers :
              inst[c].kb_id = kb_id
                  => \A pos \in 0..(inst[c].pos - 1) :
                        ItemPoints(kb_id, inst[c].knowledge_base, pos) # {}

\* two calls for one owner, with different snapshots, have returned, and
\* the owner holds two points with local id exp_0
C21_Witness ==
    /\ \A c \in Callers : inst[c].pc = "returned" /\ inst[c].kb_id = HardcodedUser
    /\ \E c \in Callers : inst[c].knowledge_base = DataScenario
    /\ \E c \in Callers : inst[c].knowledge_base = DataRevised
    /\ Cardinality({p \in points[COLLECTION_EXPERIENCES] :
                        p.payload.kb_id = HardcodedUser
                        /\ p.payload.experience_id = <<"exp", 0>>}) = MaxCallers

\* the list of the snapshot the local ids of this prefix number
KindItems(knowledge_base, prefix) ==
    CASE prefix = "exp" -> knowledge_base.work_experience
      [] prefix = "proj" -> knowledge_base.projects
      [] prefix = "skill" -> knowledge_base.skills
      [] prefix = "qa" -> knowledge_base.qa_pairs

\* the payload of point p holds the content of this item of the snapshot
Carries(p, item, prefix) ==
    CASE prefix = "qa" -> p.payload.question = item[1] /\ p.payload.answer = item[2]
      [] prefix = "skill" /\ IsStr(item) -> p.payload.skill = item.str
      [] OTHER -> \A k \in DOMAIN item \ ({"kb_id", "type"} \cup LocalIdKeys) :
                      k \in DOMAIN p.payload /\ p.payload[k] = item[k]

\* the kind tag the upsert call of this prefix writes
KindTag(prefix) ==
    CASE prefix = "exp" -> "work_experience"
      [] prefix = "proj" -> "project"
      [] prefix = "skill" -> "skill"
      [] prefix = "qa" -> "qa"

\* C22: every point an index call stores has the local id exp_i, proj_i,
\* skill_i or qa_i of the zero-based position i its item has in the snapshot
\* list of its kind, and every item that did not fail is stored under the id
\* of its position, whichever items before it failed.
C22_PositionalLocalIds ==
    [][last'.op = "index"
        => LET new == AllPoints(points') \ AllPoints(points)
               knowledge_base == last'.record
               Positional(p) ==
                    LET id == PointLocalId(p)
                        items == KindItems(knowledge_base, id[1])
                    IN  /\ p.payload.type = KindTag(id[1])
                        /\ id[2] \in 0..(Len(items) - 1)
                        /\ Carries(p, items[id[2] + 1], id[1])
           IN  /\ \A p \in new : Positional(p)
               /\ \A i \in 1..Len(last'.log) :
                    last'.log[i].stored
                        => \E p \in new : PointLocalId(p) = LocalIds(knowledge_base)[i]]_vars

\* an index call in which the first two projects failed stored the third
\* project under proj_2
C22_Witness ==
    /\ last.op = "index"
    /\ last.record = DataBadProject
    /\ \A i \in 1..Len(last.log) :
          last.log[i].local_id \in {<<"proj", 0>>, <<"proj", 1>>} => ~last.log[i].stored
    /\ \E p \in points[COLLECTION_PROJECTS] :
          /\ p.payload.kb_id = last.kb_id
          /\ p.payload.project_id = <<"proj", 2>>
          /\ p.payload.name = ProjForged.name
    /\ \A p \in points[COLLECTION_PROJECTS] : p.payload.project_id = <<"proj", 2>>

\* C23: a retrieval that returns has embedded the question once, as the bare
\* text, and searched four times; each of its four lists is an answer of the
\* vector index to the search of that kind's collection with that vector, the
\* owner id and the limit: the same hits in the same order, scores never
\* rising, every hit of the list's own kind, nothing merged or dropped.
C23_KeepsStoreRanking ==
    (last.op = "retrieve" /\ last.status = 200)
        => LET query_vector == encode(<<Part("", <<last.question>>)>>).vector
               AsReturned(list, collection, limit, tag) ==
                    /\ \E r \in query_points(points, collection, query_vector, last.kb_id, limit) :
                          list = Hits(r, query_vector)
                    /\ \A i, j \in 1..Len(list) : i < j => list[i].score >= list[j].score
                    /\ \A i \in 1..Len(list) : list[i].payload.type = tag
           IN  /\ last.encodes = 1
               /\ last.searches = 4
               /\ AsReturned(last.lists.experiences, COLLECTION_EXPERIENCES,
                             last.limits.max_experiences, "work_experience")
               /\ AsReturned(last.lists.projects, COLLECTION_PROJECTS,
                             last.limits.max_projects, "project")
               /\ AsReturned(last.lists.skills, COLLECTION_SKILLS,
                             last.limits.max_skills, "skill")
               /\ AsReturned(last.lists.qa_pairs, COLLECTION_QA, QaLimit, "qa")

\* a retrieval returned two Q&A pairs and two projects, in each list the
\* closer one first
C23_Witness ==
    /\ last.op = "retrieve"
    /\ last.status = 200
    /\ Len(last.lists.qa_pairs) = 2
    /\ last.lists.qa_pairs[1].score > last.lists.qa_pairs[2].score
    /\ Len(last.lists.projects) = 2
    /\ last.lists.projects[1].score > last.lists.projects[2].score

----------------------------------------------------------------------------
\* Skills from the snapshot to the context: a caller of the RAG service
\* indexes snapshots whose skills are plain strings or records, retrieves and
\* builds the context of what it retrieved.

\* a skill given as a record with its name
SkillRust == [name |-> "Rust", proficiency |-> "expert"]

\* a skill given as a record with the key the payload of a plain string has
SkillGo == [skill |-> "Go"]

DataSkillRecords ==
    [work_experience |-> <<>>, projects |-> <<>>, skills |-> <<SkillPy, SkillRust>>,
     qa_pairs |-> <<>>]

DataSkillKeys ==
    [work_experience |-> <<>>, projects |-> <<>>, skills |-> <<SkillGo>>, qa_pairs |-> <<>>]

SkillSnapshots == {DataScenario, DataSkillRecords, DataSkillKeys}

\* retrieve_relevant_context, then build_context_string of what it returned
service_retrieve_context(question, kb_id, limits) ==
    /\ \E r \in retrieve_relevant_context(existing, points, question, kb_id,
                                          limits.max_experiences, limits.max_projects,
                                          limits.max_skills, "none") :
            last' = [Response("context", kb_id, 200)
                        EXCEPT !.question = question,
                               !.limits = limits,
                               !.lists = r.lists,
                               !.encodes = r.encodes,
                               !.searches = r.searches,
                               !.context = build_context_string(r.lists)]
    /\ UNCHANGED <<db, nextKbId, existing, points, inst>>

NextSkills ==
    \/ \E data \in SkillSnapshots : service_index(HardcodedUser, data, {})
    \/ service_delete(HardcodedUser, {})
    \/ \E question \in Questions, n \in 1..(SmallLimit + 1) :
            service_retrieve_context(question, HardcodedUser,
                [max_experiences |-> n, max_projects |-> n, max_skills |-> n])

SpecSkills == InitStore /\ [][NextSkills]_vars

\* the name of the skill a payload was made of: the string, or the name the
\* record carries
SkillName(payload) ==
    IF "skill" \in DOMAIN payload THEN payload.skill
    ELSE IF "name" \in DOMAIN payload THEN payload.name ELSE ""

\* the skills line of the context of the last response
SkillsLines == {l \in ContextLines : StartsWith(l, "Relevant Skills: ")}

\* C24: the skills line of the context built of a retrieval holds the name of
\* each of the first 10 retrieved skills, of a skill that was indexed as a
\* plain string and of one that was indexed as a record with a name alike.
C24_SkillNamesReachContext ==
    (last.op = "context" /\ last.lists.skills # <<>>)
        => \A i \in 1..Min2(SkillBudget, Len(last.lists.skills)) :
              \E l \in SkillsLines :
                  CountOf(l, SkillName(last.lists.skills[i].payload)) > 0

\* the key and the kind tag the upsert call of a collection decorates with
Decoration(collection) ==
    CASE collection = COLLECTION_EXPERIENCES -> [key |-> "experience_id", type |-> "work_experience"]
      [] collection = COLLECTION_PROJECTS -> [key |-> "project_id", type |-> "project"]
      [] collection = COLLECTION_SKILLS -> [key |-> "skill_id", type |-> "skill"]
      [] collection = COLLECTION_QA -> [key |-> "qa_id", type |-> "qa"]

\* C25: every point an index call stores carries in its payload the owner id
\* of the call, the local id the pipeline passed for it and the kind tag of
\* its collection, also when the record has keys kb_id, type and the local-id
\* key of its own; the points of every other owner stay as they were.
C25_DecorationWins ==
    [][last'.op = "index"
        => /\ \A c \in CollectionNames :
                \A p \in points'[c] \ points[c] :
                    /\ p.payload.kb_id = last'.kb_id
                    /\ p.payload.type = Decoration(c).type
                    /\ p.payload[Decoration(c).key] \in StoredIds(last')
           /\ \A o \in Owners \ {last'.kb_id} :
                AllOwnerPoints(points', o) = AllOwnerPoints(points, o)]_vars

\* an index call for the hard-coded user stored the record that names another
\* owner, another kind and another local id, under the values of the call
C25_Witness ==
    /\ last.op = "index"
    /\ last.kb_id # ProjForged.kb_id
    /\ \E p \in points[COLLECTION_PROJECTS] :
          /\ p.payload.name = ProjForged.name
          /\ p.payload.kb_id = last.kb_id
          /\ p.payload.type = "project"
          /\ p.payload.project_id = <<"proj", 2>>
    /\ AllOwnerPoints(points, ProjForged.kb_id) # {}

----------------------------------------------------------------------------
\* A caller that wants a clean index: it calls delete_knowledge_base and then
\* index_knowledge_base for the same owner, nothing else running on that
\* owner in between.  Other callers index owners of their choice.

RefreshSnapshots == {NoData, DataScenario, DataRevised, DataManyQa}

service_refresh(kb_id, knowledge_base) ==
    LET d == delete_knowledge_base(existing, points, kb_id, {})
        r == index_knowledge_base(kb_id, knowledge_base, existing, d.points, {})
    IN  /\ Cardinality(AllPoints(r.points)) <= MaxPoints
        /\ points' = r.points
        /\ last' = [Response("refresh", kb_id, IF d.raised \/ r.raised THEN 500 ELSE 200)
                        EXCEPT !.attempted = d.attempted, !.failed = d.failed,
                               !.removed = PointCount - Cardinality(AllPoints(d.points)),
                               !.log = r.log, !.counts = Counts(knowledge_base),
                               !.record = knowledge_base]
        /\ UNCHANGED <<db, nextKbId, existing, inst>>

NextRefresh ==
    \/ \E kb_id \in Owners, data \in RefreshSnapshots : service_index(kb_id, data, {})
    \/ \E kb_id \in Owners, data \in RefreshSnapshots : service_refresh(kb_id, data)

SpecRefresh == InitStore /\ [][NextRefresh]_vars

\* the payload of point p is this item of the snapshot with the decoration
\* of its kind and nothing else
Mirrors(p, item, prefix) ==
    /\ Carries(p, item, prefix)
    /\ p.payload.type = KindTag(prefix)
    /\ DOMAIN p.payload =
          {"kb_id", "type"} \cup (LocalIdKeys \cap DOMAIN p.payload)
            \cup (CASE prefix = "qa" -> {"question", "answer"}
                    [] prefix = "skill" /\ IsStr(item) -> {"skill"}
                    [] OTHER -> DOMAIN item)

\* C26: after a delete for owner o followed by an index of snapshot S for o in
\* which nothing failed, the points of o are the items of S one to one: for
\* every item one point, with the item's record as payload and the local id of
\* its position, and no further point, whatever o had stored before.
C26_DeleteThenIndexMirrors ==
    (last.op = "refresh" /\ last.failed = {}
        /\ \A i \in 1..Len(last.log) : last.log[i].stored)
        => LET S == last.record
               mine == AllOwnerPoints(points, last.kb_id)
           IN  /\ Cardinality(mine) = ItemCount(S)
               /\ \A i \in 1..ItemCount(S) :
                    LET id == LocalIds(S)[i]
                        item == KindItems(S, id[1])[id[2] + 1]
                    IN  Cardinality({p \in mine : PointLocalId(p) = id
                                                   /\ Mirrors(p, item, id[1])}) = 1

\* a delete-then-index of a snapshot with an experience and a project took
\* away more points of earlier snapshots than it stored, while the other
\* owner holds points
C26_Witness ==
    /\ last.op = "refresh"
    /\ last.record = DataRevised
    /\ last.removed > ItemCount(DataRevised)
    /\ \E o \in Owners \ {last.kb_id} : AllOwnerPoints(points, o) # {}
    /\ \A i \in 1..Len(last.log) : last.log[i].stored
    /\ \E o \in Owners \ {last.kb_id} : AllOwnerPoints(points, o) # {}

\* C27: every point of the vector store has the owner id of a row of the
\* knowledge_base table that is there; once the row of an owner is deleted,
\* no collection holds a point of that owner.
C27_NoOrphanedVectors ==
    \A p \in AllPoints(points) :
        p.payload.kb_id \in KbIds /\ db[p.payload.kb_id].present

----------------------------------------------------------------------------
\* Rows written by the resume upload.  The parsed data of the AI parser goes
\* into the JSON columns as it is, so a row may hold a qa_pairs value that is
\* not a mapping.

\* a parse whose qa_pairs came back as a list
DataQaList ==
    [work_experience |-> <<Exp1>>, projects |-> <<>>, skills |-> <<SkillPy>>,
     qa_pairs |-> QaAsList]

ParsedData == {NoData, DataScenario, DataQaList}

\* POST /knowledge-base/upload-resume : the row of the hard-coded user is
\* updated or created with the parsed data and committed; with auto_index the
\* pipeline runs and the flag is set.  When the pipeline raises, the handler
\* of the exception calls logger, which knowledge_base.py does not import: the
\* NameError reaches the outer handler and the request ends in 500.
upload_resume(parsed_data, auto_index) ==
    /\ UserRows = {} => nextKbId <= MaxKbs
    /\ LET k == IF UserRows = {} THEN nextKbId ELSE CHOOSE x \in UserRows : TRUE
           kb == IF UserRows = {}
                 THEN [present |-> TRUE, embedding_id |-> None, data |-> parsed_data]
                 ELSE [db[k] EXCEPT !.data = parsed_data]
           r == index_knowledge_base(k, parsed_data, existing, points, {})
       IN  /\ nextKbId' = IF UserRows = {} THEN nextKbId + 1 ELSE nextKbId
           /\ IF ~auto_index
              THEN /\ db' = [db EXCEPT ![k] = kb]
                   /\ points' = points
                   /\ last' = Response("upload_resume", k, 200)
              ELSE /\ Cardinality(AllPoints(r.points)) <= MaxPoints
                   /\ points' = r.points
                   /\ IF r.raised
                      THEN /\ db' = [db EXCEPT ![k] = kb]
                           /\ last' = [Response("upload_resume", k, 500) EXCEPT !.log = r.log]
                      ELSE /\ db' = [db EXCEPT ![k] =
                                        [kb EXCEPT !.embedding_id = IndexedToken(k)]]
                           /\ last' = [Response("upload_resume", k, 200)
                                          EXCEPT !.log = r.log, !.counts = Counts(parsed_data)]
    /\ UNCHANGED <<existing, inst>>

NextUpload ==
    \/ \E parsed_data \in ParsedData, auto_index \in BOOLEAN :
            upload_resume(parsed_data, auto_index)
    \/ rag_index(0, {})
    \/ rag_delete_index(HardcodedUser, {})
    \/ kb_delete

SpecUpload == InitStore /\ [][NextUpload]_vars

\* C28: an index request that fails as a whole, an exception having escaped
\* the pipeline, leaves the indexed flag of the owner as it was and every
\* collection with the points it had.
C28_WholeFailureChangesNothing ==
    [][(last'.op = "rag_index" /\ last'.status = 500)
        => /\ db'[last'.kb_id].embedding_id = db[last'.kb_id].embedding_id
           /\ points' = points]_vars

\* C29: the context built of a retrieval result does not begin with a newline,
\* whichever of the four lists are empty, and is the empty string when all
\* four are.
C29_NoLeadingSeparator ==
    last.op = "build_context"
        => /\ last.lists = NoLists => last.context = ""
           /\ last.context # "" => At(last.context, 1) # "\n"

\* C30: an update of a knowledge base that is there and indexed commits the
\* change and answers 200 with the updated knowledge base, with and without
\* the automatic re-index, whether the re-index completes or raises.
C30_ReindexNeverFailsUpdate ==
    [][(last'.op = "kb_update" /\ last'.kb_id # 0 /\ ~NotIndexed(db[last'.kb_id]))
        => last'.status = 200]_vars

====
